---- MODULE Spec2Model ----
(***************************************************************************)
(* HKI ESPHome Humidifier Converter: the humidifier entity that wraps a    *)
(* climate entity (humidifier.py), the fan-mode select entity (select.py), *)
(* the configuration wizard (config_flow.py) and the constants (const.py). *)
(*                                                                         *)
(* Python values are tagged records: None, int, float (in tenths, so 61.0  *)
(* is 610), inf, nan, str, bool, list.  A value of the host's state store  *)
(* is either Missing (hass.states.get returns None) or a State with a      *)
(* state string and attributes.                                            *)
(***************************************************************************)
EXTENDS Integers, Sequences, FiniteSets, TLC

VARIABLES
    config,           \* the configuration the entity was constructed from
    phase,            \* position in the entity's lifecycle
    hass_climate,     \* hass.states.get(climate_entity_id)
    hass_companions,  \* hass.states.get(eid) for each companion entity id
    self,             \* the HkiEsphomeHumidifier instance's attributes
    stored_state,     \* the state the host's restore store holds for self
    calls,            \* service calls issued through hass.services.async_call
    call_error,       \* the error the last service call raised, "" if none
    result,           \* what the last command gave its caller
    select,           \* the HkiEsphomeFanModeSelect instance, once created
    listener,         \* the one-shot listener of the select platform's setup
    select_stored_state, \* the state the restore store holds for select
    entries,          \* the host's configuration entries of this integration
    flow              \* the wizard run in progress, or the last one's outcome

vars ==
    <<config, phase, hass_climate, hass_companions, self, stored_state, calls,
      call_error, result, select, listener, select_stored_state, entries,
      flow>>

\* The variables of the select platform (select.py).
select_vars == <<select, listener, select_stored_state>>

\* The variables of the humidifier platform alone (humidifier.py).
humidifier_vars == <<config, phase, hass_companions, self, stored_state>>

\* The variables of the configuration wizard (config_flow.py).
wizard_vars == <<entries, flow>>

\* ------------------------------------------------------------------ bounds

\* At most this many service calls are issued in one behaviour.
MaxCalls == 1

\* ------------------------------------------------------- Python values

PyNone == [t |-> "none"]
PyInt(n) == [t |-> "int", n |-> n]
PyFloat(tenths) == [t |-> "float", n |-> tenths]
PyInf == [t |-> "inf"]
PyNan == [t |-> "nan"]
PyStr(s) == [t |-> "str", s |-> s]
PyBool(b) == [t |-> "bool", b |-> b]
PyList(items) == [t |-> "list", items |-> items]

\* The outcome of an expression that may raise.
Ok(v) == [raised |-> "", value |-> v]
Raise(e) == [raised |-> e, value |-> PyNone]

\* float(str): the strings the model feeds it.  Python strips surrounding
\* white space and accepts "inf" and "nan"; anything else that is no number
\* raises ValueError.
float_of_str(s) ==
    CASE s = "61" -> Ok(PyFloat(610))
      [] s = "45.7" -> Ok(PyFloat(457))
      [] s = "61.5" -> Ok(PyFloat(615))
      [] s = " 50 " -> Ok(PyFloat(500))
      [] s = "-3.5" -> Ok(PyFloat(-35))
      [] s = "inf" -> Ok(PyInf)
      [] s = "nan" -> Ok(PyNan)
      [] OTHER -> Raise("ValueError")

\* float(x)
float(x) ==
    CASE x.t = "int" -> Ok(PyFloat(10 * x.n))
      [] x.t = "float" -> Ok(x)
      [] x.t = "inf" -> Ok(x)
      [] x.t = "nan" -> Ok(x)
      [] x.t = "bool" -> Ok(PyFloat(IF x.b THEN 10 ELSE 0))
      [] x.t = "str" -> float_of_str(x.s)
      [] OTHER -> Raise("TypeError")

\* int(f) of a float: truncation towards zero; nan and inf raise.
int(f) ==
    CASE f.t = "float" ->
           Ok(PyInt(IF f.n >= 0 THEN f.n \div 10 ELSE -((-f.n) \div 10)))
      [] f.t = "int" -> Ok(f)
      [] f.t = "nan" -> Raise("ValueError")
      [] f.t = "inf" -> Raise("OverflowError")
      [] OTHER -> Raise("TypeError")

\* int(float(raw))
int_float(raw) ==
    LET f == float(raw)
    IN  IF f.raised # "" THEN f ELSE int(f.value)

\* ----------------------------------------------------------- const.py

CONF_CLIMATE_ENTITY == "climate_entity"
CONF_MIN_HUMIDITY == "min_humidity"
CONF_MAX_HUMIDITY == "max_humidity"
CONF_MODES == "modes"
CONF_CURRENT_HUMIDITY_ENTITY == "current_humidity_entity"
CONF_TANK_LEVEL_ENTITY == "tank_level_entity"
CONF_PM25_ENTITY == "pm25_entity"
CONF_ERROR_ENTITY == "error_entity"
CONF_BUCKET_FULL_ENTITY == "bucket_full_entity"
CONF_CLEAN_FILTER_ENTITY == "clean_filter_entity"
CONF_DEFROST_ENTITY == "defrost_entity"
CONF_IONIZER_ENTITY == "ionizer_entity"
CONF_PUMP_ENTITY == "pump_entity"
CONF_SLEEP_ENTITY == "sleep_entity"
CONF_BEEP_ENTITY == "beep_entity"

DEFAULT_MIN_HUMIDITY == 30
DEFAULT_MAX_HUMIDITY == 80
DEFAULT_ON_HVAC_MODE == "dry"

COMPANION_SENSOR_KEYS ==
    <<CONF_CURRENT_HUMIDITY_ENTITY, CONF_TANK_LEVEL_ENTITY, CONF_PM25_ENTITY,
      CONF_ERROR_ENTITY>>

COMPANION_BINARY_SENSOR_KEYS ==
    <<CONF_BUCKET_FULL_ENTITY, CONF_CLEAN_FILTER_ENTITY, CONF_DEFROST_ENTITY>>

COMPANION_SWITCH_KEYS ==
    <<CONF_IONIZER_ENTITY, CONF_PUMP_ENTITY, CONF_SLEEP_ENTITY, CONF_BEEP_ENTITY>>

ALL_COMPANION_KEYS ==
    COMPANION_SENSOR_KEYS \o COMPANION_BINARY_SENSOR_KEYS \o COMPANION_SWITCH_KEYS

Range(seq) == {seq[i] : i \in 1..Len(seq)}

ATTR_BUCKET_FULL == "bucket_full"
ATTR_CLEAN_FILTER == "clean_filter"
ATTR_DEFROST == "defrost"
ATTR_TANK_LEVEL == "tank_level"
ATTR_PM25 == "pm25"
ATTR_ERROR == "error_code"
ATTR_IONIZER == "ionizer"
ATTR_PUMP == "pump"
ATTR_SLEEP == "sleep_mode"
ATTR_BEEP == "beep"

\* The dict of const.py: it has no entry for CONF_CURRENT_HUMIDITY_ENTITY.
COMPANION_ATTR_MAP ==
    (CONF_BUCKET_FULL_ENTITY :> ATTR_BUCKET_FULL)
    @@ (CONF_CLEAN_FILTER_ENTITY :> ATTR_CLEAN_FILTER)
    @@ (CONF_DEFROST_ENTITY :> ATTR_DEFROST)
    @@ (CONF_TANK_LEVEL_ENTITY :> ATTR_TANK_LEVEL)
    @@ (CONF_PM25_ENTITY :> ATTR_PM25)
    @@ (CONF_ERROR_ENTITY :> ATTR_ERROR)
    @@ (CONF_IONIZER_ENTITY :> ATTR_IONIZER)
    @@ (CONF_PUMP_ENTITY :> ATTR_PUMP)
    @@ (CONF_SLEEP_ENTITY :> ATTR_SLEEP)
    @@ (CONF_BEEP_ENTITY :> ATTR_BEEP)

\* The keys a companion value can be stored under.
AttrNames == {COMPANION_ATTR_MAP[k] : k \in DOMAIN COMPANION_ATTR_MAP}

\* ------------------------------------------------- homeassistant.const

STATE_OFF == "off"
STATE_ON == "on"
STATE_UNKNOWN == "unknown"
STATE_UNAVAILABLE == "unavailable"

\* ------------------------------------------------ the host's state store

\* hass.states.get(entity_id) is None
Missing == [exists |-> FALSE]

\* A State object: its state string and its attributes.
State(s, attrs) == [exists |-> TRUE, state |-> s, attributes |-> attrs]

\* state.attributes.get(key) is None for every key
NoAttrs ==
    [temperature |-> PyNone, current_temperature |-> PyNone,
     humidity |-> PyNone, current_humidity |-> PyNone,
     preset_mode |-> PyNone, preset_modes |-> PyNone,
     min_humidity |-> PyNone, max_humidity |-> PyNone,
     min_temp |-> PyNone, max_temp |-> PyNone,
     fan_mode |-> PyNone, fan_modes |-> PyNone]

\* The range a climate entity advertises, under both attribute namings.
WithRange(attrs, lo, hi) ==
    [attrs EXCEPT !.min_humidity = PyInt(lo), !.max_humidity = PyInt(hi),
                  !.min_temp = PyInt(lo), !.max_temp = PyInt(hi)]

\* The scenario of the specification: state "dry", humidity=45,
\* current_humidity=55, preset_modes=["auto","dry"], preset_mode="auto".
ScenarioHumidity ==
    State("dry",
          [NoAttrs EXCEPT !.humidity = PyInt(45),
                          !.current_humidity = PyInt(55),
                          !.preset_modes = PyList(<<"auto", "dry">>),
                          !.preset_mode = PyStr("auto")])

\* The same device as the code reads it: temperature / current_temperature.
ScenarioTemperature ==
    State("dry",
          [NoAttrs EXCEPT !.temperature = PyInt(45),
                          !.current_temperature = PyInt(55),
                          !.preset_modes = PyList(<<"auto", "dry">>),
                          !.preset_mode = PyStr("auto")])

\* The states the source (climate) entity takes in the model.
ClimateStates ==
    { Missing,
      State(STATE_UNKNOWN, NoAttrs),
      State(STATE_UNAVAILABLE, NoAttrs),
      ScenarioHumidity,
      ScenarioTemperature,
      State(STATE_OFF,
            WithRange([NoAttrs EXCEPT !.temperature = PyInt(50),
                                      !.current_temperature = PyFloat(605),
                                      !.preset_modes = PyList(<<"auto", "dry">>),
                                      !.preset_mode = PyStr("dry")], 35, 70)),
      State("fan_only",
            WithRange([NoAttrs EXCEPT !.temperature = PyStr("abc"),
                                      !.current_temperature = PyStr(" 50 "),
                                      !.preset_modes = PyList(<<"auto", "boost">>),
                                      !.preset_mode = PyStr("boost")], 40, 60)),
      State("dry",
            [NoAttrs EXCEPT !.temperature = PyFloat(457),
                            !.current_temperature = PyStr("61.5"),
                            !.preset_modes = PyList(<<"auto", "dry">>)]),
      State("dry",
            [NoAttrs EXCEPT !.temperature = PyInf,
                            !.current_temperature = PyInt(52),
                            !.preset_mode = PyStr("dry")]),
      State("cool",
            [NoAttrs EXCEPT !.temperature = PyNan,
                            !.current_temperature = PyStr("n/a"),
                            !.preset_mode = PyStr("auto")]) }

\* Companion entity ids; NoEntity is a companion left blank or not configured.
NoEntity == ""
HumiditySensor == "sensor.humidity"
TankSensor == "sensor.tank_level"
BucketSensor == "binary_sensor.bucket_full"
IonizerSwitch == "switch.ionizer"
CompanionIds == {HumiditySensor, TankSensor, BucketSensor, IonizerSwitch}

\* The state strings a companion entity of each domain takes in the model.
CompanionStateStrings(eid) ==
    IF eid \in {HumiditySensor, TankSensor}
    THEN {"61", "E5", STATE_UNAVAILABLE}
    ELSE {STATE_ON, STATE_OFF, STATE_UNKNOWN}

\* -------------------------------------------------- the configuration

NoCompanions == [k \in Range(ALL_COMPANION_KEYS) |-> NoEntity]

\* min_humidity / max_humidity as stored by the wizard (the number selector
\* yields floats); PyNone is a key the configuration does not hold.
ConfiguredRange == <<PyFloat(400), PyFloat(600)>>
NoRange == <<PyNone, PyNone>>

\* CONF_MODES: an explicit list; it may also be absent or an empty list.
ExplicitModes == PyList(<<"auto", "dry">>)

Config(range, modes, companion) ==
    [climate_entity |-> "climate.dehumidifier",
     on_hvac_mode |-> DEFAULT_ON_HVAC_MODE,
     range |-> range,
     modes |-> modes,
     companion |-> companion]

\* The configurations the entity is constructed from in the model.
Configs ==
    { Config(NoRange, PyNone, NoCompanions),
      Config(ConfiguredRange, ExplicitModes, NoCompanions),
      Config(NoRange, PyList(<<>>),
             [NoCompanions EXCEPT
                ![CONF_CURRENT_HUMIDITY_ENTITY] = HumiditySensor]),
      Config(NoRange, ExplicitModes,
             [NoCompanions EXCEPT
                ![CONF_CURRENT_HUMIDITY_ENTITY] = HumiditySensor,
                ![CONF_IONIZER_ENTITY] = IonizerSwitch]),
      [Config(ConfiguredRange, PyNone,
              [NoCompanions EXCEPT
                 ![CONF_TANK_LEVEL_ENTITY] = TankSensor,
                 ![CONF_BUCKET_FULL_ENTITY] = BucketSensor])
       EXCEPT !.on_hvac_mode = "fan_only"] }

\* config.get(key, default)
config_get(value, default) == IF value = PyNone THEN default ELSE value

\* ------------------------------------------------ HkiEsphomeHumidifier

\* A key of _companion_values that has not been received yet.
Absent == [t |-> "absent"]

\* __init__(hass, config): the instance's attributes after construction.
HkiEsphomeHumidifier(cfg) ==
    LET modes == IF cfg.modes = PyNone THEN <<>> ELSE cfg.modes.items
    IN  [climate_entity_id |-> cfg.climate_entity,
         on_hvac_mode |-> cfg.on_hvac_mode,
         min_humidity |->
             int(config_get(cfg.range[1], PyInt(DEFAULT_MIN_HUMIDITY))).value,
         max_humidity |->
             int(config_get(cfg.range[2], PyInt(DEFAULT_MAX_HUMIDITY))).value,
         available_modes |-> IF modes # <<>> THEN PyList(modes) ELSE PyNone,
         supported_features |-> IF modes # <<>> THEN 1 ELSE 0,
         companion |-> cfg.companion,
         is_on |-> FALSE,
         target_humidity |-> PyNone,
         current_humidity |-> PyNone,
         mode |-> PyNone,
         available |-> FALSE,
         companion_values |-> [a \in AttrNames |-> Absent]]

\* state is None or state.state in (STATE_UNKNOWN, STATE_UNAVAILABLE)
unusable(state) ==
    \/ ~state.exists
    \/ state.state \in {STATE_UNKNOWN, STATE_UNAVAILABLE}

\* except (ValueError, TypeError): pass
caught(exc) == exc \in {"ValueError", "TypeError"}

\* sync_is_on, were on/off taken from the configured on-mode alone.
sync_is_on_mode_as(s, state) ==
    [s EXCEPT !.is_on = (state.state = s.on_hvac_mode)]

\* self._attr_is_on = state.state != STATE_OFF
sync_is_on(s, state) ==
    [s EXCEPT !.is_on = (state.state # STATE_OFF)]

\* sync_target, were a failed coercion to clear the stored target.
sync_target_reset_as(s, state) ==
    LET raw == state.attributes.temperature
        r == int_float(raw)
    IN  IF raw = PyNone THEN [self |-> s, raised |-> ""]
        ELSE IF r.raised = ""
             THEN [self |-> [s EXCEPT !.target_humidity = r.value],
                   raised |-> ""]
        ELSE IF caught(r.raised)
             THEN [self |-> [s EXCEPT !.target_humidity = PyNone],
                   raised |-> ""]
        ELSE [self |-> s, raised |-> r.raised]

\* sync_target, were the target read from the climate attribute "humidity".
sync_target_humidity_as(s, state) ==
    LET raw == state.attributes.humidity
        r == int_float(raw)
    IN  IF raw = PyNone THEN [self |-> s, raised |-> ""]
        ELSE IF r.raised = ""
             THEN [self |-> [s EXCEPT !.target_humidity = r.value],
                   raised |-> ""]
        ELSE IF caught(r.raised) THEN [self |-> s, raised |-> ""]
        ELSE [self |-> s, raised |-> r.raised]

\* Target humidity from the climate attribute "temperature".  An exception
\* the except clause does not name leaves the method: [self, raised].
sync_target(s, state) ==
    LET raw == state.attributes.temperature
        r == int_float(raw)
    IN  IF raw = PyNone THEN [self |-> s, raised |-> ""]
        ELSE IF r.raised = ""
             THEN [self |-> [s EXCEPT !.target_humidity = r.value],
                   raised |-> ""]
        ELSE IF caught(r.raised) THEN [self |-> s, raised |-> ""]
        ELSE [self |-> s, raised |-> r.raised]

\* sync_current, were the climate attribute used even with a companion
\* sensor configured.
sync_current_always_as(s, state) ==
    LET raw_cur == state.attributes.current_temperature
        r == float(raw_cur)
    IN  IF raw_cur = PyNone THEN s
        ELSE IF r.raised = "" THEN [s EXCEPT !.current_humidity = r.value]
        ELSE s

\* Current humidity from the climate attribute "current_temperature", only
\* when no current-humidity companion is configured.
sync_current(s, state) ==
    LET raw_cur == state.attributes.current_temperature
        r == float(raw_cur)
    IN  IF s.companion[CONF_CURRENT_HUMIDITY_ENTITY] # NoEntity THEN s
        ELSE IF raw_cur = PyNone THEN s
        ELSE IF r.raised = "" THEN [s EXCEPT !.current_humidity = r.value]
        ELSE s

\* sync_mode, were the preset stored without the membership test.
sync_mode_unchecked_as(s, state) ==
    LET preset == state.attributes.preset_mode
    IN  IF s.available_modes = PyNone THEN s
        ELSE IF preset.t = "str" THEN [s EXCEPT !.mode = preset]
        ELSE s

\* sync_mode, were the mode list taken from the climate attribute
\* "preset_modes" when none is configured.
sync_mode_mirror_as(s, state) ==
    LET live == state.attributes.preset_modes
        modes == IF s.supported_features = 0 /\ live.t = "list"
                    /\ live.items # <<>>
                 THEN live ELSE s.available_modes
        preset == state.attributes.preset_mode
    IN  IF modes = PyNone THEN s
        ELSE IF preset.t = "str" /\ preset.s \in Range(modes.items)
             THEN [s EXCEPT !.available_modes = modes, !.mode = preset]
        ELSE [s EXCEPT !.available_modes = modes]

\* Mode from the climate attribute "preset_mode".
sync_mode(s, state) ==
    LET preset == state.attributes.preset_mode
    IN  IF s.available_modes = PyNone THEN s
        ELSE IF preset.t = "str" /\ preset.s \in Range(s.available_modes.items)
             THEN [s EXCEPT !.mode = preset]
        ELSE s

\* sync_unusable, were the derived values cleared with the availability.
sync_unusable_clear_as(s) ==
    [s EXCEPT !.available = FALSE, !.target_humidity = PyNone,
              !.current_humidity = PyNone, !.mode = PyNone]

\* _sync_from_climate when the state read is missing, unknown or
\* unavailable: only the availability is written.
sync_unusable(s) == [s EXCEPT !.available = FALSE]

\* sync_usable, were the range taken from the range the climate entity
\* advertises.
sync_usable_range_as(s, state) ==
    LET lo == state.attributes.min_humidity
        hi == state.attributes.max_humidity
        s0 == IF lo # PyNone /\ hi # PyNone
              THEN [s EXCEPT !.min_humidity = lo, !.max_humidity = hi]
              ELSE s
        s1 == sync_is_on([s0 EXCEPT !.available = TRUE], state)
        t == sync_target(s1, state)
    IN  IF t.raised # "" THEN t
        ELSE [self |-> sync_mode(sync_current(t.self, state), state),
              raised |-> ""]

\* sync_usable, were the availability left as it was.
sync_usable_latched_as(s, state) ==
    LET s1 == sync_is_on(s, state)
        t == sync_target(s1, state)
    IN  IF t.raised # "" THEN t
        ELSE [self |-> sync_mode(sync_current(t.self, state), state),
              raised |-> ""]

\* _sync_from_climate when the state read is usable: [self, raised].
sync_usable(s, state) ==
    LET s1 == sync_is_on([s EXCEPT !.available = TRUE], state)
        t == sync_target(s1, state)
    IN  IF t.raised # "" THEN t
        ELSE [self |-> sync_mode(sync_current(t.self, state), state),
              raised |-> ""]

\* _sync_from_climate with the state it reads: [self, raised].
sync_from_climate(s, state) ==
    IF unusable(state)
    THEN [self |-> sync_unusable(s), raised |-> ""]
    ELSE sync_usable(s, state)

\* The body of _sync_companion's loop for the key it settles on (the loop
\* then breaks): a bool for binary sensors and switches, a float or the raw
\* string for sensors, the current humidity for the current-humidity sensor.
sync_companion_key(s, conf_key, state) ==
    LET attr_name == COMPANION_ATTR_MAP[conf_key]
        r == float(PyStr(state.state))
    IN  IF conf_key \in Range(COMPANION_BINARY_SENSOR_KEYS)
        THEN [s EXCEPT !.companion_values[attr_name] =
                            PyBool(state.state = STATE_ON)]
        ELSE IF conf_key \in Range(COMPANION_SENSOR_KEYS)
        THEN (IF conf_key = CONF_CURRENT_HUMIDITY_ENTITY
              THEN (IF r.raised = ""
                    THEN [s EXCEPT !.current_humidity = r.value]
                    ELSE s)
              ELSE (IF r.raised = ""
                    THEN [s EXCEPT !.companion_values[attr_name] = r.value]
                    ELSE [s EXCEPT !.companion_values[attr_name] =
                                        PyStr(state.state)]))
        ELSE IF conf_key \in Range(COMPANION_SWITCH_KEYS)
        THEN [s EXCEPT !.companion_values[attr_name] =
                            PyBool(state.state = STATE_ON)]
        ELSE s

\* The loop of _sync_companion from the i-th key on: a key bound to another
\* entity, or with no entry in COMPANION_ATTR_MAP, is passed over.
RECURSIVE sync_companion_from(_, _, _, _)
sync_companion_from(s, i, entity_id, state) ==
    IF i > Len(ALL_COMPANION_KEYS) THEN s
    ELSE LET conf_key == ALL_COMPANION_KEYS[i]
         IN  IF s.companion[conf_key] # entity_id
             THEN sync_companion_from(s, i + 1, entity_id, state)
             ELSE IF conf_key \notin DOMAIN COMPANION_ATTR_MAP
             THEN sync_companion_from(s, i + 1, entity_id, state)
             ELSE sync_companion_key(s, conf_key, state)

\* sync_companion, were an unknown or unavailable state stored like any
\* other.
sync_companion_unguarded_as(s, entity_id, state) ==
    sync_companion_from(s, 1, entity_id, state)

\* _sync_companion(entity_id, state)
sync_companion(s, entity_id, state) ==
    IF state.state \in {STATE_UNKNOWN, STATE_UNAVAILABLE} THEN s
    ELSE sync_companion_from(s, 1, entity_id, state)

\* _sync_all_companions from the i-th key on, reading the state store.
RECURSIVE sync_all_companions_from(_, _, _)
sync_all_companions_from(s, i, store) ==
    IF i > Len(ALL_COMPANION_KEYS) THEN s
    ELSE LET entity_id == s.companion[ALL_COMPANION_KEYS[i]]
             next == IF entity_id = NoEntity THEN s
                     ELSE IF store[entity_id].exists
                     THEN sync_companion(s, entity_id, store[entity_id])
                     ELSE s
         IN  sync_all_companions_from(next, i + 1, store)

sync_all_companions(s, store) == sync_all_companions_from(s, 1, store)

\* ------------------------------------------------------------ the state

\* A service call: hass.services.async_call(domain, service, data).
ServiceCall(service, entity_id, key, value) ==
    [domain |-> "climate", service |-> service, entity_id |-> entity_id,
     key |-> key, value |-> value]

\* What a command gives its caller: it returns None (raised is "") or an
\* exception leaves it.
Result(command, arg, raised) ==
    [command |-> command, arg |-> arg, raised |-> raised]

NoResult == Result("", PyNone, "")

\* The keys of the wizard's dictionaries in the model: the source entity,
\* the range, the mode list and one companion role.
WizardKeys ==
    {CONF_CLIMATE_ENTITY, CONF_MIN_HUMIDITY, CONF_MAX_HUMIDITY, CONF_MODES,
     CONF_TANK_LEVEL_ENTITY}

\* A key a dictionary does not hold, and the empty dictionary.
Unset == [t |-> "unset"]
EmptyDict == [k \in WizardKeys |-> Unset]

\* No wizard run has been started.  A run has its handler, the entry it
\* reconfigures, its _data, its unique id, the last submission it handled
\* and the result of the last step (type, step_id, and the form error or
\* abort reason in detail).
NoFlow ==
    [handler |-> "none", entry |-> 0, data |-> EmptyDict, unique_id |-> "",
     user_input |-> EmptyDict, type |-> "", step_id |-> "", detail |-> ""]

\* No HkiEsphomeFanModeSelect has been created.
NoSelect == [exists |-> FALSE]

\* What async_get_last_state returns: None or the last stored state string.
NoLastState == "<none>"
LastStates == {NoLastState, STATE_ON, STATE_OFF, STATE_UNAVAILABLE}

\* The restore store's content left open: async_get_last_state may return
\* any of LastStates.
AnyLastState == "<any>"

\* The arguments the commands are called with.
HumidityArgs == {50, 65}
ModeArgs == {"auto", "boost"}

\* The state after __init__: the entity is constructed from a configuration
\* and not yet added; the host's store holds no state of the source entity
\* or of the companions yet (they are stored before the entity is added).
Init ==
    /\ config \in Configs
    /\ phase = "constructed"
    /\ hass_climate = Missing
    /\ hass_companions = [e \in CompanionIds |-> Missing]
    /\ self = HkiEsphomeHumidifier(config)
    /\ stored_state = AnyLastState
    /\ calls = <<>>
    /\ call_error = ""
    /\ result = NoResult
    /\ select = NoSelect
    /\ listener = "unset"
    /\ select_stored_state = AnyLastState
    /\ entries = <<>>
    /\ flow = NoFlow

\* Listeners are registered from the first part of async_added_to_hass on.
subscribed == phase \in {"restoring", "running"}

\* The entity ids the companion listener is registered for.
companion_ids == {self.companion[k] : k \in DOMAIN self.companion} \ {NoEntity}

\* --------------------------------------------------------------- actions

\* The host stores a new state of the source entity while no listener is
\* registered.
climate_set_unobserved(new) ==
    /\ phase = "constructed"
    /\ new # hass_climate
    /\ hass_climate' = new
    /\ UNCHANGED <<config, phase, hass_companions, self, calls, call_error,
                   result>>
    /\ UNCHANGED <<stored_state, select_vars, wizard_vars>>

\* The host stores a state of a companion entity (or removes it) while no
\* listener is registered.
companion_set_unobserved(entity_id, new) ==
    /\ phase = "constructed"
    /\ entity_id \in companion_ids
    /\ new # hass_companions[entity_id]
    /\ hass_companions' = [hass_companions EXCEPT ![entity_id] = new]
    /\ UNCHANGED <<config, phase, hass_climate, self, calls, call_error,
                   result>>
    /\ UNCHANGED <<stored_state, select_vars, wizard_vars>>

\* async_added_to_hass up to its await of async_get_last_state: both
\* listeners are registered.
async_added_to_hass_subscribe ==
    /\ phase = "constructed"
    /\ phase' = "restoring"
    /\ UNCHANGED <<config, hass_climate, hass_companions, self, calls,
                   call_error, result>>
    /\ UNCHANGED <<stored_state, select_vars, wizard_vars>>

\* The restore of async_added_to_hass: on/off from the last stored state.
restore_is_on(s, last_state) ==
    IF last_state # NoLastState
       /\ last_state \notin {STATE_UNKNOWN, STATE_UNAVAILABLE}
    THEN [s EXCEPT !.is_on = (last_state # STATE_OFF)]
    ELSE s

\* added_to_hass_finish, were the restore made after the synchronisation.
added_to_hass_finish_restore_last_as(s, last_state, climate, store) ==
    LET r == sync_from_climate(s, climate)
    IN  IF r.raised # "" THEN restore_is_on(r.self, last_state)
        ELSE sync_all_companions(restore_is_on(r.self, last_state), store)

\* added_to_hass_finish, were the startup to end with the restore and
\* leave the synchronisation to the notifications.
added_to_hass_finish_no_sync_as(s, last_state, climate, store) ==
    restore_is_on(s, last_state)

\* The rest of async_added_to_hass, from the restored state on: restore,
\* _sync_from_climate, _sync_all_companions.  An exception leaving
\* _sync_from_climate leaves the method before the companions are read.
added_to_hass_finish(s, last_state, climate, store) ==
    LET r == sync_from_climate(restore_is_on(s, last_state), climate)
    IN  IF r.raised # "" THEN r.self
        ELSE sync_all_companions(r.self, store)

async_added_to_hass_restore(last_state) ==
    /\ phase = "restoring"
    /\ stored_state \in {AnyLastState, last_state}
    /\ phase' = "running"
    /\ self' = added_to_hass_finish(self, last_state, hass_climate,
                                    hass_companions)
    /\ UNCHANGED <<config, hass_climate, hass_companions, calls, call_error,
                   result>>
    /\ UNCHANGED <<stored_state, select_vars, wizard_vars>>

\* The source entity changes state and _async_climate_changed runs: it reads
\* the store, which holds the new state.
async_climate_changed(new) ==
    /\ subscribed
    /\ new # hass_climate
    /\ hass_climate' = new
    /\ self' = sync_from_climate(self, new).self
    /\ UNCHANGED <<config, phase, hass_companions, calls, call_error, result>>
    /\ UNCHANGED <<stored_state, select_vars, wizard_vars>>

\* A companion entity changes state (new_state is None when it is removed)
\* and _async_companion_changed runs.
async_companion_changed(entity_id, new_state) ==
    /\ subscribed
    /\ entity_id \in companion_ids
    /\ new_state # hass_companions[entity_id]
    /\ hass_companions' = [hass_companions EXCEPT ![entity_id] = new_state]
    /\ self' = IF ~new_state.exists THEN self
               ELSE sync_companion(self, entity_id, new_state)
    /\ UNCHANGED <<config, phase, hass_climate, calls, call_error, result>>
    /\ UNCHANGED <<stored_state, select_vars, wizard_vars>>

\* hass.services.async_call returns, or the host's dispatcher raises.
ServiceErrors == {"", "HomeAssistantError"}

\* async_call, were a call repeated after it was made.
async_call_retry_as(call, error) ==
    /\ Len(calls) < MaxCalls
    /\ calls' = Append(Append(calls, call), call)
    /\ call_error' = error

\* A command's service call, awaited with blocking=True: one invocation,
\* which returns or raises.
async_call(call, error) ==
    /\ Len(calls) < MaxCalls
    /\ calls' = Append(calls, call)
    /\ call_error' = error

\* await_result, were the call wrapped in a try block that logs and goes on.
await_result_swallow_as(command, arg, error) == Result(command, arg, "")

\* The await of a command's service call is its last statement and stands
\* in no try block: an exception of the call leaves the command.
await_result(command, arg, error) == Result(command, arg, error)

async_turn_on(error) ==
    /\ phase = "running"
    /\ async_call(ServiceCall("set_hvac_mode", self.climate_entity_id,
                              "hvac_mode", PyStr(self.on_hvac_mode)), error)
    /\ result' = await_result("turn_on", PyNone, error)
    /\ UNCHANGED <<config, phase, hass_climate, hass_companions, self>>
    /\ UNCHANGED <<stored_state, select_vars, wizard_vars>>

async_turn_off(error) ==
    /\ phase = "running"
    /\ async_call(ServiceCall("set_hvac_mode", self.climate_entity_id,
                              "hvac_mode", PyStr("off")), error)
    /\ result' = await_result("turn_off", PyNone, error)
    /\ UNCHANGED <<config, phase, hass_climate, hass_companions, self>>
    /\ UNCHANGED <<stored_state, select_vars, wizard_vars>>

async_set_humidity(humidity, error) ==
    /\ phase = "running"
    /\ async_call(ServiceCall("set_temperature", self.climate_entity_id,
                              "temperature", PyInt(humidity)), error)
    /\ result' = await_result("set_humidity", PyInt(humidity), error)
    /\ UNCHANGED <<config, phase, hass_climate, hass_companions, self>>
    /\ UNCHANGED <<stored_state, select_vars, wizard_vars>>

\* mode_rejected, were every mode forwarded.
mode_rejected_never_as(s, mode) == FALSE

\* The guard of async_set_mode: the entity has a mode list (None and the
\* empty list are falsy) and mode is not in it.
mode_rejected(s, mode) ==
    /\ s.available_modes # PyNone
    /\ s.available_modes.items # <<>>
    /\ mode \notin Range(s.available_modes.items)

\* async_set_mode logs an error and returns without a call when the guard
\* holds; otherwise it makes the call.
async_set_mode(mode, error) ==
    /\ phase = "running"
    /\ IF mode_rejected(self, mode)
       THEN /\ result' = Result("set_mode", PyStr(mode), "")
            /\ UNCHANGED <<calls, call_error>>
       ELSE /\ async_call(ServiceCall("set_preset_mode",
                                      self.climate_entity_id,
                                      "preset_mode", PyStr(mode)), error)
            /\ result' = await_result("set_mode", PyStr(mode), error)
    /\ UNCHANGED <<config, phase, hass_climate, hass_companions, self>>
    /\ UNCHANGED <<stored_state, select_vars, wizard_vars>>

\* The states a companion entity's notification carries: a state of its
\* domain, or none when the entity is removed.
CompanionStates(entity_id) ==
    {Missing} \cup {State(x, NoAttrs) : x \in CompanionStateStrings(entity_id)}

Next ==
    \/ \E new \in ClimateStates : climate_set_unobserved(new)
    \/ \E e \in CompanionIds :
         \E new \in CompanionStates(e) :
           companion_set_unobserved(e, new)
    \/ async_added_to_hass_subscribe
    \/ \E last_state \in LastStates : async_added_to_hass_restore(last_state)
    \/ \E new \in ClimateStates : async_climate_changed(new)
    \/ \E e \in CompanionIds :
         \E new \in CompanionStates(e) :
           async_companion_changed(e, new)
    \/ \E error \in ServiceErrors : async_turn_on(error)
    \/ \E error \in ServiceErrors : async_turn_off(error)
    \/ \E humidity \in HumidityArgs :
         \E error \in ServiceErrors : async_set_humidity(humidity, error)
    \/ \E mode \in ModeArgs :
         \E error \in ServiceErrors : async_set_mode(mode, error)

Spec == Init /\ [][Next]_vars

\* A restart: the restore store holds a definite state for the entity, and
\* the entity is added and notified while no command is called.
RestartInit ==
    /\ config \in Configs
    /\ phase = "constructed"
    /\ hass_climate = Missing
    /\ hass_companions = [e \in CompanionIds |-> Missing]
    /\ self = HkiEsphomeHumidifier(config)
    /\ stored_state \in LastStates
    /\ calls = <<>>
    /\ call_error = ""
    /\ result = NoResult
    /\ select = NoSelect
    /\ listener = "unset"
    /\ select_stored_state = AnyLastState
    /\ entries = <<>>
    /\ flow = NoFlow

RestartNext ==
    \/ \E new \in ClimateStates : climate_set_unobserved(new)
    \/ \E e \in CompanionIds :
         \E new \in CompanionStates(e) :
           companion_set_unobserved(e, new)
    \/ async_added_to_hass_subscribe
    \/ \E last_state \in LastStates : async_added_to_hass_restore(last_state)
    \/ \E new \in ClimateStates : async_climate_changed(new)
    \/ \E e \in CompanionIds :
         \E new \in CompanionStates(e) :
           async_companion_changed(e, new)

RestartSpec == RestartInit /\ [][RestartNext]_vars

\* -------------------------------------------- select platform (fan mode)

\* The states of the source entity in the fan-mode scenarios: missing,
\* unavailable, with a fan-mode list (fan_mode in it or not), with an empty
\* list, with no fan attributes.
FanState(s, fan_modes, fan_mode) ==
    State(s, [NoAttrs EXCEPT !.temperature = PyInt(50),
                             !.fan_modes = fan_modes,
                             !.fan_mode = fan_mode])

FanClimateStates ==
    { Missing,
      State(STATE_UNAVAILABLE, NoAttrs),
      FanState("dry", PyList(<<"low", "high">>), PyStr("low")),
      FanState("dry", PyList(<<"low", "high", "turbo">>), PyStr("turbo")),
      FanState("dry", PyList(<<"low", "high", "turbo">>), PyStr("low")),
      FanState(STATE_OFF, PyList(<<"low", "high">>), PyStr("auto")),
      FanState("dry", PyList(<<>>), PyNone),
      FanState("dry", PyNone, PyNone) }

\* The options async_select_option is called with, and the states
\* async_get_last_state returns for the select entity.
FanArgs == {"low", "turbo"}
FanLastStates == {NoLastState, "low", "turbo", STATE_UNAVAILABLE}

\* state.attributes.get("fan_modes") or []
fan_modes_of(state) ==
    LET raw == state.attributes.fan_modes
    IN  IF raw = PyNone THEN <<>> ELSE raw.items

\* HkiEsphomeFanModeSelect.__init__(hass, config, fan_modes); fan_modes
\* keeps the constructor's argument, the list the entity was created with.
HkiEsphomeFanModeSelect(cfg, fan_modes) ==
    [exists |-> TRUE,
     phase |-> "constructed",
     climate_entity_id |-> cfg.climate_entity,
     fan_modes |-> fan_modes,
     options |-> fan_modes,
     current_option |-> PyNone,
     available |-> FALSE]

\* The select entity's listener is registered from the first part of its
\* async_added_to_hass on.
select_subscribed == select.exists /\ select.phase \in {"restoring", "running"}

\* _sync_from_climate: the option list follows a non-empty live list.
select_sync_options(sel, state) ==
    LET live_modes == fan_modes_of(state)
    IN  IF live_modes # <<>> THEN [sel EXCEPT !.options = live_modes] ELSE sel

\* select_sync_current, were fan_mode taken without the membership test.
select_sync_current_unchecked_as(sel, state) ==
    LET current == state.attributes.fan_mode
    IN  IF current # PyNone /\ current.s # ""
        THEN [sel EXCEPT !.current_option = current]
        ELSE sel

\* _sync_from_climate: the current option follows fan_mode when it is truthy
\* and in the option list.
select_sync_current(sel, state) ==
    LET current == state.attributes.fan_mode
    IN  IF /\ current # PyNone
           /\ current.s # ""
           /\ current.s \in Range(sel.options)
        THEN [sel EXCEPT !.current_option = current]
        ELSE sel

\* HkiEsphomeFanModeSelect._sync_from_climate
select_sync_from_climate(sel, state) ==
    IF unusable(state)
    THEN [sel EXCEPT !.available = FALSE]
    ELSE select_sync_current(
             select_sync_options([sel EXCEPT !.available = TRUE], state),
             state)

\* The fan modes async_setup_entry and its listener read from a state.
setup_fan_modes(state) ==
    IF unusable(state) THEN <<>> ELSE fan_modes_of(state)

\* async_setup_entry of the select platform: the entity is created when the
\* source entity has fan modes, otherwise the one-shot listener is
\* registered.
select_async_setup_entry ==
    /\ listener = "unset"
    /\ IF setup_fan_modes(hass_climate) # <<>>
       THEN /\ select' = HkiEsphomeFanModeSelect(config,
                                                 setup_fan_modes(hass_climate))
            /\ listener' = "none"
       ELSE /\ listener' = "listening"
            /\ UNCHANGED select
    /\ UNCHANGED <<hass_climate, calls, call_error, result, select_stored_state,
                   humidifier_vars, wizard_vars>>

\* select_on_state_changed, were the one-shot listener never cancelled.
select_on_state_changed_keep_as(new_state) ==
    IF listener \in {"listening", "cancelled"}
    THEN IF setup_fan_modes(new_state) # <<>>
         THEN /\ select' = HkiEsphomeFanModeSelect(config,
                                                   setup_fan_modes(new_state))
              /\ listener' = "cancelled"
         ELSE UNCHANGED <<select, listener>>
    ELSE /\ select' = IF select_subscribed
                      THEN select_sync_from_climate(select, new_state)
                      ELSE select
         /\ UNCHANGED listener

\* What a state change of the source entity does in the select platform:
\* _on_climate_first_state while the one-shot listener is registered (it
\* creates the entity and cancels itself on the first valid state with fan
\* modes), _async_climate_changed once the entity listens.
select_on_state_changed(new_state) ==
    IF listener = "listening"
    THEN IF setup_fan_modes(new_state) # <<>>
         THEN /\ select' = HkiEsphomeFanModeSelect(config,
                                                   setup_fan_modes(new_state))
              /\ listener' = "cancelled"
         ELSE UNCHANGED <<select, listener>>
    ELSE /\ select' = IF select_subscribed
                      THEN select_sync_from_climate(select, new_state)
                      ELSE select
         /\ UNCHANGED listener

\* The source entity changes state once the select platform is set up.
select_climate_changed(new) ==
    /\ listener # "unset"
    /\ new # hass_climate
    /\ hass_climate' = new
    /\ select_on_state_changed(new)
    /\ UNCHANGED <<calls, call_error, result, select_stored_state,
                   humidifier_vars, wizard_vars>>

\* The select entity's async_added_to_hass up to its await of
\* async_get_last_state: the listener is registered.
select_async_added_to_hass_subscribe ==
    /\ select.exists
    /\ select.phase = "constructed"
    /\ select' = [select EXCEPT !.phase = "restoring"]
    /\ UNCHANGED <<hass_climate, calls, call_error, result, listener,
                   select_stored_state, humidifier_vars, wizard_vars>>

\* select_restore, were the last selection taken without the membership
\* test.
select_restore_any_as(sel, last_state) ==
    IF /\ last_state # NoLastState
       /\ last_state \notin {STATE_UNKNOWN, STATE_UNAVAILABLE}
    THEN [sel EXCEPT !.current_option = PyStr(last_state)]
    ELSE sel

\* The restore of the select entity: the last selection when it is an option.
select_restore(sel, last_state) ==
    IF /\ last_state # NoLastState
       /\ last_state \notin {STATE_UNKNOWN, STATE_UNAVAILABLE}
       /\ last_state \in Range(sel.options)
    THEN [sel EXCEPT !.current_option = PyStr(last_state)]
    ELSE sel

\* The rest of the select entity's async_added_to_hass: restore, then
\* _sync_from_climate.
select_async_added_to_hass_restore(last_state) ==
    /\ select.exists
    /\ select.phase = "restoring"
    /\ select_stored_state \in {AnyLastState, last_state}
    /\ select' = select_sync_from_climate(
                     [select_restore(select, last_state)
                        EXCEPT !.phase = "running"],
                     hass_climate)
    /\ UNCHANGED <<hass_climate, calls, call_error, result, listener,
                   select_stored_state, humidifier_vars, wizard_vars>>

\* async_select_option, were the option tested against the option list
\* before the call.
async_select_option_guarded_as(option, error) ==
    /\ select.exists
    /\ select.phase = "running"
    /\ IF option \in Range(select.options)
       THEN /\ async_call(ServiceCall("set_fan_mode",
                                      select.climate_entity_id,
                                      "fan_mode", PyStr(option)), error)
            /\ result' = await_result("select_option", PyStr(option), error)
       ELSE /\ result' = Result("select_option", PyStr(option), "")
            /\ UNCHANGED <<calls, call_error>>
    /\ UNCHANGED <<hass_climate, select_vars, humidifier_vars, wizard_vars>>

\* HkiEsphomeFanModeSelect.async_select_option: one set_fan_mode call.
async_select_option(option, error) ==
    /\ select.exists
    /\ select.phase = "running"
    /\ async_call(ServiceCall("set_fan_mode", select.climate_entity_id,
                              "fan_mode", PyStr(option)), error)
    /\ result' = await_result("select_option", PyStr(option), error)
    /\ UNCHANGED <<hass_climate, select_vars, humidifier_vars, wizard_vars>>

\* The select platform of one configuration entry, the humidifier entity
\* of the entry left aside.
SelectInit ==
    /\ config = Config(NoRange, PyNone, NoCompanions)
    /\ phase = "constructed"
    /\ hass_climate \in FanClimateStates
    /\ hass_companions = [e \in CompanionIds |-> Missing]
    /\ self = HkiEsphomeHumidifier(config)
    /\ stored_state = AnyLastState
    /\ calls = <<>>
    /\ call_error = ""
    /\ result = NoResult
    /\ select = NoSelect
    /\ listener = "unset"
    /\ select_stored_state = AnyLastState
    /\ entries = <<>>
    /\ flow = NoFlow

SelectNext ==
    \/ select_async_setup_entry
    \/ \E new \in FanClimateStates : select_climate_changed(new)
    \/ select_async_added_to_hass_subscribe
    \/ \E last_state \in FanLastStates :
         select_async_added_to_hass_restore(last_state)
    \/ \E option \in FanArgs :
         \E error \in ServiceErrors : async_select_option(option, error)

SelectSpec == SelectInit /\ [][SelectNext]_vars

\* The select platform started over a restore store whose content for the
\* select entity is given.
SelectRestartInit ==
    /\ config = Config(NoRange, PyNone, NoCompanions)
    /\ phase = "constructed"
    /\ hass_climate \in FanClimateStates
    /\ hass_companions = [e \in CompanionIds |-> Missing]
    /\ self = HkiEsphomeHumidifier(config)
    /\ stored_state = AnyLastState
    /\ calls = <<>>
    /\ call_error = ""
    /\ result = NoResult
    /\ select = NoSelect
    /\ listener = "unset"
    /\ select_stored_state \in FanLastStates
    /\ entries = <<>>
    /\ flow = NoFlow

SelectRestartSpec == SelectRestartInit /\ [][SelectNext]_vars

\* ---------------------------------- both platforms of one config entry

\* A state change of the source entity, delivered to the listeners of both
\* platforms: the humidifier's _async_climate_changed and the select
\* platform's listener.
entry_climate_changed(new) ==
    /\ new # hass_climate
    /\ hass_climate' = new
    /\ self' = IF subscribed THEN sync_from_climate(self, new).self ELSE self
    /\ select_on_state_changed(new)
    /\ UNCHANGED <<config, phase, hass_companions, stored_state, calls,
                   call_error, result, select_stored_state, wizard_vars>>

\* The humidifier and the select platform of one configuration entry, set
\* up side by side over the same source entity; the companions stay absent.
EntryInit ==
    /\ config \in Configs
    /\ phase = "constructed"
    /\ hass_climate \in FanClimateStates
    /\ hass_companions = [e \in CompanionIds |-> Missing]
    /\ self = HkiEsphomeHumidifier(config)
    /\ stored_state = AnyLastState
    /\ calls = <<>>
    /\ call_error = ""
    /\ result = NoResult
    /\ select = NoSelect
    /\ listener = "unset"
    /\ select_stored_state = AnyLastState
    /\ entries = <<>>
    /\ flow = NoFlow

EntryNext ==
    \/ async_added_to_hass_subscribe
    \/ \E last_state \in LastStates : async_added_to_hass_restore(last_state)
    \/ select_async_setup_entry
    \/ select_async_added_to_hass_subscribe
    \/ \E last_state \in FanLastStates :
         select_async_added_to_hass_restore(last_state)
    \/ \E new \in FanClimateStates : entry_climate_changed(new)
    \/ \E error \in ServiceErrors : async_turn_on(error)
    \/ \E error \in ServiceErrors : async_turn_off(error)
    \/ \E humidity \in HumidityArgs :
         \E error \in ServiceErrors : async_set_humidity(humidity, error)
    \/ \E mode \in ModeArgs :
         \E error \in ServiceErrors : async_set_mode(mode, error)
    \/ \E option \in FanArgs :
         \E error \in ServiceErrors : async_select_option(option, error)

EntrySpec == EntryInit /\ [][EntryNext]_vars

\* ------------------------------------- commands suspended at their call

\* The mark of a command that awaits its service call.
Suspended == "<suspended>"

\* command_suspends, were the command to write the state it asks for
\* before the source entity reports it.
command_suspends_optimistic_as(command, arg, call) ==
    /\ result.raised # Suspended
    /\ Len(calls) < MaxCalls
    /\ calls' = Append(calls, call)
    /\ result' = Result(command, arg, Suspended)
    /\ self' = [self EXCEPT !.is_on = (call.value # PyStr("off"))]
    /\ UNCHANGED <<config, phase, hass_companions, stored_state>>
    /\ UNCHANGED <<hass_climate, call_error, select_vars, wizard_vars>>

\* A command up to its await: the service call is issued with
\* blocking=True and the command is suspended until the call returns or
\* raises.  No command holds a statement that assigns an attribute of its
\* entity.
command_suspends(command, arg, call) ==
    /\ result.raised # Suspended
    /\ Len(calls) < MaxCalls
    /\ calls' = Append(calls, call)
    /\ result' = Result(command, arg, Suspended)
    /\ UNCHANGED <<hass_climate, call_error, humidifier_vars, select_vars,
                   wizard_vars>>

async_turn_on_call ==
    /\ phase = "running"
    /\ command_suspends("turn_on", PyNone,
                        ServiceCall("set_hvac_mode", self.climate_entity_id,
                                    "hvac_mode", PyStr(self.on_hvac_mode)))

async_turn_off_call ==
    /\ phase = "running"
    /\ command_suspends("turn_off", PyNone,
                        ServiceCall("set_hvac_mode", self.climate_entity_id,
                                    "hvac_mode", PyStr("off")))

async_set_humidity_call(humidity) ==
    /\ phase = "running"
    /\ command_suspends("set_humidity", PyInt(humidity),
                        ServiceCall("set_temperature",
                                    self.climate_entity_id,
                                    "temperature", PyInt(humidity)))

\* async_set_mode returns at once, without a call, when the guard holds.
async_set_mode_call(mode) ==
    /\ phase = "running"
    /\ IF mode_rejected(self, mode)
       THEN /\ result.raised # Suspended
            /\ result' = Result("set_mode", PyStr(mode), "")
            /\ UNCHANGED <<calls, call_error, hass_climate, humidifier_vars,
                           select_vars, wizard_vars>>
       ELSE command_suspends("set_mode", PyStr(mode),
                             ServiceCall("set_preset_mode",
                                         self.climate_entity_id,
                                         "preset_mode", PyStr(mode)))

async_select_option_call(option) ==
    /\ select.exists
    /\ select.phase = "running"
    /\ command_suspends("select_option", PyStr(option),
                        ServiceCall("set_fan_mode", select.climate_entity_id,
                                    "fan_mode", PyStr(option)))

\* The awaited service call returns or raises, and with it the command:
\* the await is the command's last statement.
async_call_returns(error) ==
    /\ result.raised = Suspended
    /\ call_error' = error
    /\ result' = await_result(result.command, result.arg, error)
    /\ UNCHANGED <<calls, hass_climate, humidifier_vars, select_vars,
                   wizard_vars>>

\* Both entities of one configuration entry, with source notifications
\* delivered while a command awaits its service call.
SuspendInit ==
    /\ config \in Configs
    /\ phase = "constructed"
    /\ hass_climate \in FanClimateStates
    /\ hass_companions = [e \in CompanionIds |-> Missing]
    /\ self = HkiEsphomeHumidifier(config)
    /\ stored_state = AnyLastState
    /\ calls = <<>>
    /\ call_error = ""
    /\ result = NoResult
    /\ select = NoSelect
    /\ listener = "unset"
    /\ select_stored_state = AnyLastState
    /\ entries = <<>>
    /\ flow = NoFlow

SuspendNext ==
    \/ async_added_to_hass_subscribe
    \/ \E last_state \in LastStates : async_added_to_hass_restore(last_state)
    \/ select_async_setup_entry
    \/ select_async_added_to_hass_subscribe
    \/ \E last_state \in FanLastStates :
         select_async_added_to_hass_restore(last_state)
    \/ \E new \in FanClimateStates : entry_climate_changed(new)
    \/ async_turn_on_call
    \/ async_turn_off_call
    \/ \E humidity \in HumidityArgs : async_set_humidity_call(humidity)
    \/ \E mode \in ModeArgs : async_set_mode_call(mode)
    \/ \E option \in FanArgs : async_select_option_call(option)
    \/ \E error \in ServiceErrors : async_call_returns(error)

SuspendSpec == SuspendInit /\ [][SuspendNext]_vars

\* ------------------------------------------------------------- teardown

\* A state change of a companion entity, delivered to the humidifier's
\* _async_companion_changed while its subscription is registered.
entry_companion_changed(entity_id, new_state) ==
    /\ entity_id \in companion_ids
    /\ new_state # hass_companions[entity_id]
    /\ hass_companions' = [hass_companions EXCEPT ![entity_id] = new_state]
    /\ self' = IF subscribed /\ new_state.exists
               THEN sync_companion(self, entity_id, new_state)
               ELSE self
    /\ UNCHANGED <<config, phase, hass_climate, stored_state, calls,
                   call_error, result, select_vars, wizard_vars>>

\* The humidifier entity is removed: the host runs what async_on_remove
\* was given, the unsubscribe functions of both subscriptions.
humidifier_removed ==
    /\ phase = "running"
    /\ phase' = "removed"
    /\ UNCHANGED <<config, hass_climate, hass_companions, self, stored_state,
                   calls, call_error, result, select_vars, wizard_vars>>

\* The select entity is removed: the host runs the unsubscribe function
\* async_on_remove was given.
select_removed ==
    /\ select.exists
    /\ select.phase = "running"
    /\ select' = [select EXCEPT !.phase = "removed"]
    /\ UNCHANGED <<hass_climate, calls, call_error, result, listener,
                   select_stored_state, humidifier_vars, wizard_vars>>

\* The configuration entry is removed: the host removes the entities of
\* both platforms.  The cancel function of the one-shot listener is a local
\* of the select platform's async_setup_entry, called by the listener alone
\* and handed to nobody, so the removal leaves the listener as it is.
entry_removed ==
    /\ listener # "unset"
    /\ phase \in {"running", "removed"}
    /\ select.exists => select.phase \in {"running", "removed"}
    /\ phase' = "unloaded"
    /\ select' = IF select.exists THEN [select EXCEPT !.phase = "removed"]
                 ELSE select
    /\ UNCHANGED <<config, hass_climate, hass_companions, self, stored_state,
                   calls, call_error, result, listener, select_stored_state,
                   wizard_vars>>

\* Both platforms of one configuration entry, with the companion entities
\* and the removal of the entities and of the entry; no command is called.
TeardownInit ==
    /\ config \in Configs
    /\ phase = "constructed"
    /\ hass_climate \in {Missing, ScenarioTemperature}
    /\ hass_companions = [e \in CompanionIds |-> Missing]
    /\ self = HkiEsphomeHumidifier(config)
    /\ stored_state = AnyLastState
    /\ calls = <<>>
    /\ call_error = ""
    /\ result = NoResult
    /\ select = NoSelect
    /\ listener = "unset"
    /\ select_stored_state = AnyLastState
    /\ entries = <<>>
    /\ flow = NoFlow

\* The source states of the teardown scenarios: missing, valid without fan
\* modes, valid with fan modes.
TeardownClimateStates ==
    { Missing,
      ScenarioTemperature,
      FanState("dry", PyList(<<"low", "high">>), PyStr("low")) }

TeardownNext ==
    \/ async_added_to_hass_subscribe
    \/ \E last_state \in LastStates : async_added_to_hass_restore(last_state)
    \/ select_async_setup_entry
    \/ select_async_added_to_hass_subscribe
    \/ \E last_state \in FanLastStates :
         select_async_added_to_hass_restore(last_state)
    \/ \E new \in TeardownClimateStates : entry_climate_changed(new)
    \/ \E e \in CompanionIds :
         \E new \in CompanionStates(e) : entry_companion_changed(e, new)
    \/ humidifier_removed
    \/ select_removed
    \/ entry_removed

TeardownSpec == TeardownInit /\ [][TeardownNext]_vars

\* ------------------------------------------- the wizard (config_flow.py)

\* The source entities offered by the Core step's entity selector.
ClimateIds == {"climate.dehumidifier", "climate.bedroom"}

\* d.get(key, default), and d.update(other)
dict_get(d, key, default) == IF d[key] = Unset THEN default ELSE d[key]
dict_update(d, other) ==
    [k \in WizardKeys |-> IF other[k] # Unset THEN other[k] ELSE d[k]]

\* _clean_data: the items whose value is neither "" nor [].
clean_data(data) ==
    [k \in WizardKeys |->
       IF data[k] = PyStr("") \/ data[k] = PyList(<<>>) THEN Unset
       ELSE data[k]]

\* What the three forms submit.
CoreInput(climate_id, lo, hi) ==
    [EmptyDict EXCEPT ![CONF_CLIMATE_ENTITY] = PyStr(climate_id),
                      ![CONF_MIN_HUMIDITY] = PyInt(lo),
                      ![CONF_MAX_HUMIDITY] = PyInt(hi)]

CoreInputs ==
    {CoreInput(c, r[1], r[2]) :
       c \in ClimateIds, r \in {<<30, 80>>, <<50, 50>>, <<60, 40>>}}

ModesInputs ==
    {EmptyDict} \cup
    {[EmptyDict EXCEPT ![CONF_MODES] = PyList(m)] :
       m \in {<<>>, <<"auto", "dry">>}}

ExtrasInputs ==
    {[EmptyDict EXCEPT ![CONF_TANK_LEVEL_ENTITY] = PyStr(e)] :
       e \in {"", TankSensor}}

\* humidity_range_invalid, were equal bounds let through.
humidity_range_invalid_strict_as(user_input) ==
    dict_get(user_input, CONF_MIN_HUMIDITY, PyInt(0)).n
      > dict_get(user_input, CONF_MAX_HUMIDITY, PyInt(100)).n

\* user_input.get(CONF_MIN_HUMIDITY, 0) >= user_input.get(CONF_MAX_HUMIDITY,
\* 100)
humidity_range_invalid(user_input) ==
    dict_get(user_input, CONF_MIN_HUMIDITY, PyInt(0)).n
      >= dict_get(user_input, CONF_MAX_HUMIDITY, PyInt(100)).n

\* A configuration entry of the host: its unique id, data and options.
ConfigEntry(unique_id, data) ==
    [unique_id |-> unique_id, data |-> data, options |-> EmptyDict]

\* {**entry.data, **entry.options}: the configuration the platforms build
\* their entities from, and the source entity it binds.
entry_config(entry) == dict_update(entry.data, entry.options)
bound_climate(entry) == entry_config(entry)[CONF_CLIMATE_ENTITY]

\* _abort_if_unique_id_configured: an entry of the integration has the
\* unique id.
unique_id_configured(unique_id) ==
    \E i \in DOMAIN entries : entries[i].unique_id = unique_id

\* The user opens the initial-setup wizard: async_step_user(None) shows the
\* Core form.
config_flow_init ==
    /\ flow' = [NoFlow EXCEPT !.handler = "config", !.type = "form",
                              !.step_id = "user"]
    /\ UNCHANGED <<entries, hass_climate, calls, call_error, result,
                   select_vars, humidifier_vars>>

\* HkiEsphomeHumidifierConfigFlow.async_step_user with a submission.
async_step_user(user_input) ==
    /\ flow.handler = "config"
    /\ flow.type = "form"
    /\ flow.step_id = "user"
    /\ LET climate_id == user_input[CONF_CLIMATE_ENTITY].s
           f == [flow EXCEPT !.unique_id = climate_id,
                             !.user_input = user_input]
       IN  flow' =
             IF unique_id_configured(climate_id)
             THEN [f EXCEPT !.type = "abort", !.detail = "already_configured"]
             ELSE IF humidity_range_invalid(user_input)
             THEN [f EXCEPT !.detail = "humidity_range_invalid"]
             ELSE [f EXCEPT !.data = dict_update(@, clean_data(user_input)),
                            !.step_id = "modes", !.detail = ""]
    /\ UNCHANGED <<entries, hass_climate, calls, call_error, result,
                   select_vars, humidifier_vars>>

\* HkiEsphomeHumidifierConfigFlow.async_step_modes with a submission: a
\* non-empty list is stored.
config_async_step_modes(user_input) ==
    /\ flow.handler = "config"
    /\ flow.type = "form"
    /\ flow.step_id = "modes"
    /\ LET modes == dict_get(user_input, CONF_MODES, PyList(<<>>))
       IN  flow' = [flow EXCEPT
                      !.data = IF modes.items # <<>>
                               THEN [@ EXCEPT ![CONF_MODES] = modes]
                               ELSE @,
                      !.user_input = user_input,
                      !.step_id = "extras"]
    /\ UNCHANGED <<entries, hass_climate, calls, call_error, result,
                   select_vars, humidifier_vars>>

\* HkiEsphomeHumidifierConfigFlow.async_step_extras with a submission: the
\* entry is created.
config_async_step_extras(user_input) ==
    /\ flow.handler = "config"
    /\ flow.type = "form"
    /\ flow.step_id = "extras"
    /\ LET data == dict_update(flow.data, clean_data(user_input))
       IN  /\ entries' = Append(entries, ConfigEntry(flow.unique_id, data))
           /\ flow' = [flow EXCEPT !.data = data, !.user_input = user_input,
                                   !.type = "create_entry"]
    /\ UNCHANGED <<hass_climate, calls, call_error, result, select_vars,
                   humidifier_vars>>

\* The user opens the reconfiguration wizard of an entry: __init__ merges
\* data and options, async_step_init shows the Core form.
options_flow_init(i) ==
    /\ i \in DOMAIN entries
    /\ flow' = [NoFlow EXCEPT !.handler = "options", !.entry = i,
                              !.data = entry_config(entries[i]),
                              !.type = "form", !.step_id = "core"]
    /\ UNCHANGED <<entries, hass_climate, calls, call_error, result,
                   select_vars, humidifier_vars>>

\* HkiEsphomeHumidifierOptionsFlow.async_step_core with a submission.
options_async_step_core(user_input) ==
    /\ flow.handler = "options"
    /\ flow.type = "form"
    /\ flow.step_id = "core"
    /\ flow' =
         IF humidity_range_invalid(user_input)
         THEN [flow EXCEPT !.user_input = user_input,
                           !.detail = "humidity_range_invalid"]
         ELSE [flow EXCEPT !.data = dict_update(@, clean_data(user_input)),
                           !.user_input = user_input,
                           !.step_id = "modes", !.detail = ""]
    /\ UNCHANGED <<entries, hass_climate, calls, call_error, result,
                   select_vars, humidifier_vars>>

\* HkiEsphomeHumidifierOptionsFlow.async_step_modes with a submission: the
\* list is stored, empty or not.
options_async_step_modes(user_input) ==
    /\ flow.handler = "options"
    /\ flow.type = "form"
    /\ flow.step_id = "modes"
    /\ flow' = [flow EXCEPT
                  !.data = [@ EXCEPT ![CONF_MODES] =
                              dict_get(user_input, CONF_MODES, PyList(<<>>))],
                  !.user_input = user_input,
                  !.step_id = "extras"]
    /\ UNCHANGED <<entries, hass_climate, calls, call_error, result,
                   select_vars, humidifier_vars>>

\* HkiEsphomeHumidifierOptionsFlow.async_step_extras with a submission: the
\* host stores the data as the entry's options.
options_async_step_extras(user_input) ==
    /\ flow.handler = "options"
    /\ flow.type = "form"
    /\ flow.step_id = "extras"
    /\ LET data == dict_update(flow.data, clean_data(user_input))
       IN  /\ entries' = [entries EXCEPT ![flow.entry].options = data]
           /\ flow' = [flow EXCEPT !.data = data, !.user_input = user_input,
                                   !.type = "create_entry"]
    /\ UNCHANGED <<hass_climate, calls, call_error, result, select_vars,
                   humidifier_vars>>

\* The wizard alone: runs of the initial setup and of the reconfiguration,
\* one at a time; a run that is open when the next one starts is abandoned.
WizardInit ==
    /\ config = Config(NoRange, PyNone, NoCompanions)
    /\ phase = "constructed"
    /\ hass_climate = Missing
    /\ hass_companions = [e \in CompanionIds |-> Missing]
    /\ self = HkiEsphomeHumidifier(config)
    /\ stored_state = AnyLastState
    /\ calls = <<>>
    /\ call_error = ""
    /\ result = NoResult
    /\ select = NoSelect
    /\ listener = "unset"
    /\ select_stored_state = AnyLastState
    /\ entries = <<>>
    /\ flow = NoFlow

WizardNext ==
    \/ config_flow_init
    \/ \E user_input \in CoreInputs : async_step_user(user_input)
    \/ \E user_input \in ModesInputs : config_async_step_modes(user_input)
    \/ \E user_input \in ExtrasInputs : config_async_step_extras(user_input)
    \/ \E i \in 1..Cardinality(ClimateIds) : options_flow_init(i)
    \/ \E user_input \in CoreInputs : options_async_step_core(user_input)
    \/ \E user_input \in ModesInputs : options_async_step_modes(user_input)
    \/ \E user_input \in ExtrasInputs : options_async_step_extras(user_input)

WizardSpec == WizardInit /\ [][WizardNext]_vars

\* ---------------------------------------------------------- properties

\* A step in which _async_climate_changed ran: it read hass_climate'.
ClimateNotified == subscribed /\ hass_climate' # hass_climate

\* A step in which async_added_to_hass read the store: it read hass_climate.
StartupSynced == phase = "restoring" /\ phase' = "running"

\* The configuration names a current-humidity companion sensor.
HasHumiditySensor == config.companion[CONF_CURRENT_HUMIDITY_ENTITY] # NoEntity

\* The configuration holds a non-empty mode list.
HasExplicitModes == config.modes # PyNone /\ config.modes.items # <<>>

\* The configuration holds the minimum and the maximum of the range.
HasConfiguredRange == config.range[1] # PyNone /\ config.range[2] # PyNone

\* C1: after every synchronisation from the source entity, at startup or on
\* a notification, that reads a usable state, on/off is on exactly when that
\* state differs from "off", whatever the operating mode is.
C1_OnIffNotOff ==
    [][ /\ (ClimateNotified /\ ~unusable(hass_climate'))
           => (self'.is_on <=> hass_climate'.state # STATE_OFF)
        /\ (StartupSynced /\ ~unusable(hass_climate))
           => (self'.is_on <=> hass_climate.state # STATE_OFF) ]_vars

\* C1: a synchronisation read an operating mode that is neither "off" nor
\* the configured on-mode, and the entity is on.
C1_Witness ==
    /\ phase = "running"
    /\ hass_climate.exists
    /\ hass_climate.state = "fan_only"
    /\ self.on_hvac_mode # "fan_only"
    /\ self.available
    /\ self.is_on

\* C2: with a current-humidity companion sensor configured whose state is a
\* numeric string, read at startup or delivered by a notification, the
\* current value is that number as a float: "61" gives 61.0.
C2_CompanionCurrent ==
    (/\ phase = "running"
     /\ HasHumiditySensor
     /\ hass_companions[HumiditySensor].exists
     /\ hass_companions[HumiditySensor].state = "61")
    => self.current_humidity = PyFloat(610)

\* C3 as stated: the effective mode list is the configured list when that
\* is non-empty, and otherwise the source entity's live mode list as of the
\* last usable synchronisation.
C3_MirrorsLiveList ==
    (phase = "running" /\ ~unusable(hass_climate))
    => self.available_modes =
         (IF HasExplicitModes THEN config.modes
          ELSE hass_climate.attributes.preset_modes)

\* C3 as amended: the effective mode list is the configured list when that
\* is non-empty; with no list configured (absent or empty) it is absent in
\* every reachable state, whatever list the source entity advertises, and
\* the entity does not support modes.
C3_EffectiveModes ==
    /\ HasExplicitModes
       => (self.available_modes = config.modes /\ self.supported_features = 1)
    /\ ~HasExplicitModes
       => (self.available_modes = PyNone /\ self.supported_features = 0)

\* C3: no list is configured, the source entity advertises one, a
\* synchronisation has read it, and the entity has no mode list.
C3_Witness ==
    /\ phase = "running"
    /\ ~HasExplicitModes
    /\ self.available
    /\ ~unusable(hass_climate)
    /\ hass_climate.attributes.preset_modes = PyList(<<"auto", "boost">>)
    /\ self.available_modes = PyNone

\* preset is a member of the entity's mode list.
InModeList(s, preset) ==
    /\ s.available_modes # PyNone
    /\ preset.t = "str"
    /\ preset.s \in Range(s.available_modes.items)

\* The active mode is absent or a member of the effective mode list.
ModeIsListed == self.mode = PyNone \/ InModeList(self, self.mode)

\* A synchronisation that read `read` left the mode as it was when the
\* state was unusable or its preset_mode was absent or outside the list.
ModeKept(read) ==
    (unusable(read) \/ ~InModeList(self, read.attributes.preset_mode))
    => self'.mode = self.mode

\* C4: in every reachable state the active mode is absent or a member of
\* the effective mode list, and a synchronisation whose preset_mode is
\* outside the list or absent leaves the active mode as it was.
C4_ModeInList ==
    /\ []ModeIsListed
    /\ [][ /\ ClimateNotified => ModeKept(hass_climate')
           /\ StartupSynced => ModeKept(hass_climate) ]_vars

\* C4: a mode was stored and a later synchronisation read a preset_mode
\* outside the list: the stored mode is still there.
C4_Witness ==
    /\ phase = "running"
    /\ self.available
    /\ hass_climate.attributes.preset_mode = PyStr("boost")
    /\ ~InModeList(self, PyStr("boost"))
    /\ self.mode = PyStr("auto")

\* The target attribute is missing or does not coerce: float() raises, or
\* the float is not a number.
TargetMissingOrNonNumeric(raw) ==
    \/ raw = PyNone
    \/ float(raw).raised # ""
    \/ float(raw).value = PyNan

\* What a synchronisation that read the usable state `read` did to the
\* target, and to the other fields when the target attribute was missing or
\* non-numeric.
TargetRule(read) ==
    LET raw == read.attributes.temperature
        cur == read.attributes.current_temperature
        preset == read.attributes.preset_mode
    IN  /\ self'.target_humidity # self.target_humidity
           => (raw # PyNone /\ int_float(raw).raised = "")
        /\ (raw # PyNone /\ int_float(raw).raised = "")
           => self'.target_humidity = int_float(raw).value
        /\ TargetMissingOrNonNumeric(raw)
           => /\ self'.target_humidity = self.target_humidity
              /\ self'.available
              /\ self'.is_on <=> read.state # STATE_OFF
              /\ self'.mode = IF InModeList(self, preset) THEN preset
                              ELSE self.mode
              /\ ~HasHumiditySensor
                 => self'.current_humidity =
                      IF cur # PyNone /\ float(cur).raised = ""
                      THEN float(cur).value ELSE self.current_humidity

\* C5: a synchronisation changes the target only when the target attribute
\* is present and coerces to an integer; when it is missing or non-numeric
\* the stored target is kept, never cleared, and the other derived fields of
\* the same synchronisation are still updated.
C5_TargetOnlyOnCoercion ==
    [][ /\ (ClimateNotified /\ ~unusable(hass_climate'))
           => TargetRule(hass_climate')
        /\ (StartupSynced /\ ~unusable(hass_climate))
           => TargetRule(hass_climate) ]_vars

\* C5: a target was stored, and a later synchronisation read a non-numeric
\* target attribute: the target is kept while the current value was taken
\* from the same read.
C5_Witness ==
    /\ phase = "running"
    /\ hass_climate.exists
    /\ hass_climate.attributes.temperature = PyStr("abc")
    /\ hass_climate.attributes.current_temperature = PyStr(" 50 ")
    /\ self.target_humidity = PyInt(45)
    /\ self.current_humidity = PyFloat(500)
    /\ self.is_on

\* _sync_from_climate raises on this state before it reaches the current
\* value.
SyncRaises(read) ==
    /\ read.attributes.temperature # PyNone
    /\ int_float(read.attributes.temperature).raised = "OverflowError"

\* C6: with a current-humidity companion configured no synchronisation from
\* the source entity changes the current value (at startup only the
\* companion's own state can); without one, the source attribute feeds it.
C6_CompanionShadowsAttribute ==
    [][ /\ (HasHumiditySensor /\ ClimateNotified)
           => self'.current_humidity = self.current_humidity
        /\ (HasHumiditySensor /\ StartupSynced)
           => \/ self'.current_humidity = self.current_humidity
              \/ /\ hass_companions[HumiditySensor].exists
                 /\ self'.current_humidity =
                      float(PyStr(hass_companions[HumiditySensor].state)).value
        /\ (/\ ~HasHumiditySensor
            /\ ClimateNotified
            /\ ~unusable(hass_climate')
            /\ ~SyncRaises(hass_climate')
            /\ hass_climate'.attributes.current_temperature # PyNone
            /\ float(hass_climate'.attributes.current_temperature).raised = "")
           => self'.current_humidity =
                float(hass_climate'.attributes.current_temperature).value
      ]_vars

\* C6: a companion is configured and a synchronisation has read a source
\* state whose current_temperature is 55: the current value is not 55.0.
C6_Witness ==
    /\ phase = "running"
    /\ HasHumiditySensor
    /\ self.available
    /\ hass_climate = ScenarioTemperature
    /\ self.target_humidity = PyInt(45)
    /\ self.current_humidity # PyFloat(550)

\* C7: a synchronisation that reads the source entity as missing, unknown
\* or unavailable sets the availability to false and clears nothing: on a
\* notification every other attribute, the companion values included, is as
\* before; at startup target, mode and range are as before (on/off is the
\* restored one, the companions are read after it).
C7_UnusableKeepsValues ==
    [][ /\ (ClimateNotified /\ unusable(hass_climate'))
           => self' = [self EXCEPT !.available = FALSE]
        /\ (StartupSynced /\ unusable(hass_climate))
           => /\ ~self'.available
              /\ self'.target_humidity = self.target_humidity
              /\ self'.mode = self.mode
              /\ ~HasHumiditySensor
                 => self'.current_humidity = self.current_humidity ]_vars

\* C7: the source entity became unavailable after target, current value,
\* mode and a companion value had been computed: they are all still there.
C7_Witness ==
    /\ phase = "running"
    /\ hass_climate.exists
    /\ hass_climate.state = STATE_UNAVAILABLE
    /\ ~self.available
    /\ self.is_on
    /\ self.target_humidity = PyInt(45)
    /\ self.current_humidity = PyFloat(550)

\* C8 as stated: no companion and no explicit mode list; the source reports
\* "dry" with humidity=45, current_humidity=55, preset_modes=["auto","dry"],
\* preset_mode="auto"; the result is on, target 45, current 55.0, mode auto.
C8_ScenarioAsStated ==
    (/\ phase = "running"
     /\ config.companion = NoCompanions
     /\ ~HasExplicitModes
     /\ hass_climate = ScenarioHumidity)
    => /\ self.is_on
       /\ self.target_humidity = PyInt(45)
       /\ self.current_humidity = PyFloat(550)
       /\ self.mode = PyStr("auto")

\* C8 as amended: no companion; the source reports "dry" with
\* temperature=45, current_temperature=55, preset_modes=["auto","dry"],
\* preset_mode="auto"; the result is on, target 45, current 55.0, and mode
\* auto when the configured mode list holds "auto" (absent with no list).
C8_Scenario ==
    (/\ phase = "running"
     /\ config.companion = NoCompanions
     /\ hass_climate = ScenarioTemperature)
    => /\ self.available
       /\ self.is_on
       /\ self.target_humidity = PyInt(45)
       /\ self.current_humidity = PyFloat(550)
       /\ self.mode = IF HasExplicitModes /\ "auto" \in Range(config.modes.items)
                      THEN PyStr("auto") ELSE PyNone

\* C8: the amended scenario was synchronised with a mode list configured.
C8_Witness ==
    /\ phase = "running"
    /\ config.companion = NoCompanions
    /\ HasExplicitModes
    /\ hass_climate = ScenarioTemperature
    /\ self.target_humidity = PyInt(45)
    /\ self.mode = PyStr("auto")

\* C9: with minimum and maximum configured, the entity's minimum and
\* maximum are the configured values in every reachable state.
C9_ConfiguredRangeKept ==
    HasConfiguredRange
    => /\ float(self.min_humidity) = float(config.range[1])
       /\ float(self.max_humidity) = float(config.range[2])

\* C9: the range is configured, the source entity advertises another range
\* and has been synchronised, a companion has reported and a command was
\* issued.
C9_Witness ==
    /\ phase = "running"
    /\ HasConfiguredRange
    /\ self.available
    /\ hass_climate.attributes.min_humidity = PyInt(35)
    /\ hass_climate.attributes.max_humidity = PyInt(70)
    /\ self.companion_values[ATTR_TANK_LEVEL] = PyFloat(610)
    /\ Len(calls) > 0
    /\ self.min_humidity = PyInt(40)
    /\ self.max_humidity = PyInt(60)

\* C10 as stated: with no range configured, after a usable synchronisation
\* the entity's range is the range the source entity advertises, and the
\* defaults when it advertises none.
C10_FollowsLiveRange ==
    (/\ phase = "running"
     /\ ~HasConfiguredRange
     /\ ~unusable(hass_climate))
    => IF hass_climate.attributes.min_humidity # PyNone
       THEN /\ self.min_humidity = hass_climate.attributes.min_humidity
            /\ self.max_humidity = hass_climate.attributes.max_humidity
       ELSE /\ self.min_humidity = PyInt(DEFAULT_MIN_HUMIDITY)
            /\ self.max_humidity = PyInt(DEFAULT_MAX_HUMIDITY)

\* C10 as amended: with no range configured the entity's minimum and
\* maximum are the defaults, 30 and 80, in every reachable state, whatever
\* range the source entity advertises.
C10_DefaultRange ==
    ~HasConfiguredRange
    => /\ self.min_humidity = PyInt(DEFAULT_MIN_HUMIDITY)
       /\ self.max_humidity = PyInt(DEFAULT_MAX_HUMIDITY)

\* C10: no range is configured and a synchronisation has read a source
\* state advertising the range 35..70: the entity's range is 30..80.
C10_Witness ==
    /\ phase = "running"
    /\ ~HasConfiguredRange
    /\ self.available
    /\ hass_climate.attributes.min_humidity = PyInt(35)
    /\ hass_climate.attributes.max_humidity = PyInt(70)
    /\ self.min_humidity = PyInt(30)
    /\ self.max_humidity = PyInt(80)

\* ------------------------------------------------------------ commands

\* A step in which the command named c ran and gave its caller a result.
CommandStep(c) ==
    /\ result'.command = c
    /\ <<calls, call_error, result>>' # <<calls, call_error, result>>

\* The call set-mode(m) makes: set_preset_mode on the configured source
\* entity with preset_mode m.
SetModeCall(m) ==
    ServiceCall("set_preset_mode", config.climate_entity, "preset_mode",
                PyStr(m))

\* C11 as stated: set-mode(m) makes no call and changes no adapter state
\* when m is not in the effective mode list (an absent list has no members),
\* and makes exactly one call setting the mode to m when m is in it.
C11_RejectsUnlisted ==
    [][\A m \in ModeArgs :
         (CommandStep("set_mode") /\ result'.arg = PyStr(m))
         => IF InModeList(self, PyStr(m))
            THEN calls' = Append(calls, SetModeCall(m)) /\ self' = self
            ELSE calls' = calls /\ self' = self]_vars

\* C11 as amended: set-mode(m) makes no call, changes no adapter state and
\* returns when the entity has a mode list and m is not in it; when m is in
\* the list, or the entity has no mode list, it makes exactly one call
\* setting the source entity's preset mode to m, and changes no adapter
\* state.
C11_RejectsAgainstConfiguredList ==
    [][\A m \in ModeArgs :
         (CommandStep("set_mode") /\ result'.arg = PyStr(m))
         => IF self.available_modes # PyNone /\ ~InModeList(self, PyStr(m))
            THEN calls' = calls /\ self' = self /\ result'.raised = ""
            ELSE calls' = Append(calls, SetModeCall(m)) /\ self' = self]_vars

\* C11: with the mode list ["auto", "dry"], set-mode("auto") has made its
\* one call and set-mode("boost") has then returned without a call.
C11_Witness ==
    /\ self.available_modes = ExplicitModes
    /\ calls = <<SetModeCall("auto")>>
    /\ result = Result("set_mode", PyStr("boost"), "")

\* C12: turn-on, turn-off and set-target(v) each issue exactly one service
\* call, to the configured source entity: set_hvac_mode with the configured
\* on-mode, set_hvac_mode with "off", set_temperature with v; the log of
\* calls grows by that one call and nothing more.
C12_OneCallEach ==
    [][ /\ CommandStep("turn_on")
           => calls' = Append(calls,
                              ServiceCall("set_hvac_mode",
                                          config.climate_entity, "hvac_mode",
                                          PyStr(config.on_hvac_mode)))
        /\ CommandStep("turn_off")
           => calls' = Append(calls,
                              ServiceCall("set_hvac_mode",
                                          config.climate_entity, "hvac_mode",
                                          PyStr("off")))
        /\ \A v \in HumidityArgs :
             (CommandStep("set_humidity") /\ result'.arg = PyInt(v))
             => calls' = Append(calls,
                                ServiceCall("set_temperature",
                                            config.climate_entity,
                                            "temperature", PyInt(v)))
      ]_vars

\* C12: with the on-mode "fan_only" configured, turn-on has issued its one
\* call.
C12_Witness ==
    /\ config.on_hvac_mode = "fan_only"
    /\ result.command = "turn_on"
    /\ calls = <<ServiceCall("set_hvac_mode", "climate.dehumidifier",
                             "hvac_mode", PyStr("fan_only"))>>

\* ------------------------------------------------------- fan-mode select

\* The source entity advertises fan modes: its state is usable and its
\* fan_modes list is not empty.
AdvertisesFanModes(state) == ~unusable(state) /\ fan_modes_of(state) # <<>>

\* C16: once the select platform is set up, and whenever the source entity
\* is in a usable state, the fan-speed select entity exists exactly when
\* the source entity advertises fan modes: it is there when they are and
\* gone when they are not.
C16_ExistsWhileAdvertised ==
    (listener # "unset" /\ ~unusable(hass_climate))
    => (select.exists <=> AdvertisesFanModes(hass_climate))

\* The commands of the two entities, as CommandStep names them.
CommandNames ==
    {"turn_on", "turn_off", "set_humidity", "set_mode", "select_option"}

\* C13: when the service call of a command (turn-on, turn-off, set-target,
\* set-mode, fan-speed select) fails, the command's caller gets that error,
\* the call was made once and not repeated, and the derived state of the
\* humidifier and of the fan-speed select is what it was before the command.
C13_FailureSurfaces ==
    [][\A c \in CommandNames :
         (CommandStep(c) /\ calls' # calls /\ call_error' # "")
         => /\ result'.raised = call_error'
            /\ Len(calls') = Len(calls) + 1
            /\ self' = self
            /\ select' = select]_vars

\* C13: with both entities running and the source entity usable, the
\* service call of a fan-speed selection has failed and its caller has the
\* error.
C13_Witness ==
    /\ phase = "running"
    /\ self.available
    /\ select.exists
    /\ select.available
    /\ call_error = "HomeAssistantError"
    /\ result = Result("select_option", PyStr("low"), "HomeAssistantError")
    /\ Len(calls) = 1

\* ---------------------------------------------------------------- wizard

\* A step in which the Core step of the initial-setup wizard handled a
\* submission: the run has taken the submitted source entity as its unique
\* id.
CoreSubmitted ==
    /\ flow.handler = "config"
    /\ flow.type = "form"
    /\ flow.step_id = "user"
    /\ flow'.handler = "config"
    /\ flow'.unique_id # ""
    /\ flow' # flow

\* Some configuration entry is bound to the source entity climate_id.
BoundToEntry(climate_id) ==
    \E i \in DOMAIN entries : bound_climate(entries[i]) = PyStr(climate_id)

\* C14: in initial setup, a Core submission naming a source entity that an
\* existing entry is bound to ends the run with the abort "already
\* configured" and creates no entry; an aborted run reaches no further
\* step.
C14_DuplicateRejected ==
    /\ [][(CoreSubmitted /\ BoundToEntry(flow'.unique_id))
          => /\ flow'.type = "abort"
             /\ flow'.detail = "already_configured"
             /\ entries' = entries]_vars
    /\ [][(flow.handler = "config" /\ flow.type = "abort")
          => (flow' = flow \/ flow'.unique_id = "")]_vars

\* C15: no two configuration entries are bound to the same source entity.
C15_UniqueBinding ==
    \A i, j \in DOMAIN entries :
      i # j => bound_climate(entries[i]) # bound_climate(entries[j])

\* ---------------------------------------------------------------- restart

\* The restore store holds a state that is neither unknown nor unavailable.
UsableStored ==
    stored_state \in LastStates \ {NoLastState, STATE_UNKNOWN,
                                   STATE_UNAVAILABLE}

\* C17 as stated: when the restore store holds a usable state, on/off after
\* the startup is the restored value, on exactly when the stored state is
\* not "off": the restored value stands against the freshly computed one.
C17_RestoredOverrides ==
    [][(StartupSynced /\ UsableStored)
       => self'.is_on = (stored_state # STATE_OFF)]_vars

\* C17 as amended: when the restore store holds a usable state, on/off after
\* the startup is the freshly computed value when the source entity's state
\* is usable, whatever was restored, and the restored value (on exactly when
\* the stored state is not "off") when the source entity is missing, unknown
\* or unavailable; afterwards on/off changes only when a notification of the
\* source entity is processed.
C17_RestoredIsFallback ==
    /\ [][(StartupSynced /\ UsableStored)
          => self'.is_on = IF unusable(hass_climate)
                           THEN stored_state # STATE_OFF
                           ELSE hass_climate.state # STATE_OFF]_vars
    /\ [][(phase = "running" /\ ~ClimateNotified)
          => self'.is_on = self.is_on]_vars

\* C17: the restore store held "on" and the entity was added while the
\* source entity had no state: it is on and unavailable.
C17_Witness ==
    /\ phase = "running"
    /\ stored_state = STATE_ON
    /\ hass_climate = Missing
    /\ self.is_on
    /\ ~self.available
    /\ self.target_humidity = PyNone

\* ------------------------------------------------------------ companions

\* A step in which _async_companion_changed ran for the entity e.
CompanionNotified(e) ==
    subscribed /\ hass_companions'[e] # hass_companions[e]

\* The value a usable companion state gives its role: a boolean (the state
\* is "on") for binary sensors and switches, a number or else the raw string
\* for sensors.
RoleValue(conf_key, x) ==
    IF conf_key \in Range(COMPANION_SENSOR_KEYS)
    THEN LET r == float(PyStr(x))
         IN  IF r.raised = "" THEN r.value ELSE PyStr(x)
    ELSE PyBool(x = STATE_ON)

\* The instance with the derived attribute of one role replaced: the current
\* value for the current-humidity sensor, the role's extra attribute for the
\* others.
WithRoleValue(s, conf_key, value) ==
    IF conf_key = CONF_CURRENT_HUMIDITY_ENTITY
    THEN [s EXCEPT !.current_humidity = value]
    ELSE [s EXCEPT !.companion_values[COMPANION_ATTR_MAP[conf_key]] = value]

\* C18: a companion notification for a configured role sets that role's
\* derived attribute from the new state (a boolean for binary sensors and
\* switches; a number for sensors, a non-numeric state giving the raw
\* string, or for the current value nothing) and changes nothing else of
\* the instance; a notification without a new state changes nothing.
C18_UpdatesOnlyItsRole ==
    [][\A e \in CompanionIds :
         \A conf_key \in Range(ALL_COMPANION_KEYS) :
           (CompanionNotified(e) /\ self.companion[conf_key] = e)
           => LET new_state == hass_companions'[e]
              IN  IF ~new_state.exists THEN self' = self
                  ELSE IF new_state.state \in {STATE_UNKNOWN, STATE_UNAVAILABLE}
                  THEN TRUE
                  ELSE \/ self' = WithRoleValue(
                                      self, conf_key,
                                      RoleValue(conf_key, new_state.state))
                       \/ /\ conf_key = CONF_CURRENT_HUMIDITY_ENTITY
                          /\ float(PyStr(new_state.state)).raised # ""
                          /\ self' = self]_vars

\* The state is one _sync_companion passes over: unknown or unavailable.
CompanionUnusable(state) ==
    state.exists /\ state.state \in {STATE_UNKNOWN, STATE_UNAVAILABLE}

\* C19: a companion state of unknown or unavailable changes no derived
\* value: delivered by a notification it leaves the whole instance as it
\* was, and read at startup it leaves the value of its role (the current
\* value for the current-humidity sensor) as it was.
C19_UnusableCompanionKeepsValue ==
    [][ /\ \A e \in CompanionIds :
             (CompanionNotified(e) /\ CompanionUnusable(hass_companions'[e]))
             => self' = self
        /\ StartupSynced
           => \A conf_key \in Range(ALL_COMPANION_KEYS) :
                LET e == self.companion[conf_key]
                IN  (e # NoEntity /\ CompanionUnusable(hass_companions[e]))
                    => IF conf_key = CONF_CURRENT_HUMIDITY_ENTITY
                       THEN self'.current_humidity = self.current_humidity
                       ELSE LET attr_name == COMPANION_ATTR_MAP[conf_key]
                            IN  self'.companion_values[attr_name]
                                  = self.companion_values[attr_name]
      ]_vars

\* C19: the tank-level sensor is unavailable and the bucket sensor unknown
\* while the values they gave before, 61.0 and True, are still held.
C19_Witness ==
    /\ phase = "running"
    /\ hass_companions[TankSensor] = State(STATE_UNAVAILABLE, NoAttrs)
    /\ hass_companions[BucketSensor] = State(STATE_UNKNOWN, NoAttrs)
    /\ self.companion_values[ATTR_TANK_LEVEL] = PyFloat(610)
    /\ self.companion_values[ATTR_BUCKET_FULL] = PyBool(TRUE)

\* ----------------------------------------------------------- availability

\* What a synchronisation that read the usable state `read` computes: the
\* instance is available, on/off follows the state, the target follows the
\* target attribute when it coerces, and, unless the coercion left the
\* method with an OverflowError, the mode and the current value follow
\* their attributes under the rules of the mode list and of the companion
\* sensor.
Recomputed(read) ==
    LET raw == read.attributes.temperature
        cur == read.attributes.current_temperature
        preset == read.attributes.preset_mode
    IN  /\ self'.available
        /\ self'.is_on <=> read.state # STATE_OFF
        /\ self'.target_humidity =
             IF raw # PyNone /\ int_float(raw).raised = ""
             THEN int_float(raw).value ELSE self.target_humidity
        /\ ~SyncRaises(read)
           => /\ self'.mode = IF InModeList(self, preset) THEN preset
                              ELSE self.mode
              /\ self'.current_humidity =
                   IF /\ ~HasHumiditySensor
                      /\ cur # PyNone
                      /\ float(cur).raised = ""
                   THEN float(cur).value ELSE self.current_humidity

MirrorCreated ==
    /\ select'.exists
    /\ \/ ~select.exists
       \/ select'.phase = "constructed" /\ select' # select

\* The select platform is being set up; the source entity notifies the
\* platform of a new state.
SelectSetUp == listener = "unset" /\ listener' # "unset"
SelectNotified == listener # "unset" /\ hass_climate' # hass_climate

MirrorNotified == SelectNotified /\ select_subscribed
MirrorStartupSynced ==
    select.exists /\ select.phase = "restoring" /\ select'.phase = "running"

\* The option list after a synchronisation that read the valid state `read`.
SyncedOptions(read) ==
    IF fan_modes_of(read) # <<>> THEN fan_modes_of(read) ELSE select.options

\* The source's fan-speed value is a member of the list `options`.
FanModeIn(read, options) ==
    /\ read.attributes.fan_mode # PyNone
    /\ read.attributes.fan_mode.s \in Range(options)

\* C22: a synchronisation of the mirror that reads a valid source state
\* replaces the option list by the live fan-mode list when that list is
\* not empty and keeps it otherwise; the current option becomes the
\* source's fan-speed value when that value is in the resulting list; on a
\* notification it is otherwise unchanged, and at the end of startup it
\* otherwise is the one before or a member of the creation-time list (the
\* restored selection).
C22_OptionsAndCurrentFollow ==
    [][ /\ (MirrorNotified /\ ~unusable(hass_climate'))
           => /\ select'.options = SyncedOptions(hass_climate')
              /\ select'.current_option =
                   IF FanModeIn(hass_climate', select'.options)
                   THEN hass_climate'.attributes.fan_mode
                   ELSE select.current_option
        /\ (MirrorStartupSynced /\ ~unusable(hass_climate))
           => /\ select'.options = SyncedOptions(hass_climate)
              /\ IF FanModeIn(hass_climate, select'.options)
                 THEN select'.current_option
                        = hass_climate.attributes.fan_mode
                 ELSE \/ select'.current_option = select.current_option
                      \/ /\ select'.current_option # PyNone
                         /\ select'.current_option.s
                              \in Range(select.options) ]_vars

\* C22: the mirror, running with the options low and high and the option
\* low, has read a valid state whose fan-speed value auto is not an option:
\* the option is still low.
C22_Witness ==
    /\ select.exists
    /\ select.phase = "running"
    /\ hass_climate = FanState(STATE_OFF, PyList(<<"low", "high">>),
                               PyStr("auto"))
    /\ select.available
    /\ select.options = <<"low", "high">>
    /\ select.current_option = PyStr("low")

\* ---------------------------------------------- fan mirror: the command

\* The call select(option) makes: set_fan_mode on the mirror's source
\* entity with that fan_mode.
SetFanModeCall(option) ==
    ServiceCall("set_fan_mode", select.climate_entity_id, "fan_mode", option)

\* C23 as stated: a fan-speed selection is forwarded as exactly one call
\* carrying the chosen option, and the option of every forwarded call is a
\* member of the mirror's option list at the time of the command.
C23_OnlyMembersForwarded ==
    [][CommandStep("select_option")
       => /\ calls' = Append(calls, SetFanModeCall(result'.arg))
          /\ result'.arg.s \in Range(select.options)]_vars

\* C23: a fan-speed selection is forwarded as exactly one set_fan_mode call
\* carrying the chosen option to the mirror's source entity, whether or not
\* the option is a member of the mirror's option list, and the command
\* leaves the mirror as it was.
C23_ForwardsChosenOption ==
    [][\A option \in FanArgs :
         (CommandStep("select_option") /\ result'.arg = PyStr(option))
         => /\ calls' = Append(calls, SetFanModeCall(PyStr(option)))
            /\ select' = select]_vars

\* C23: the selection of turbo has been forwarded by a mirror whose options
\* are low and high.
C23_Witness ==
    /\ select.exists
    /\ select.options = <<"low", "high">>
    /\ result.command = "select_option"
    /\ calls = <<ServiceCall("set_fan_mode", "climate.dehumidifier",
                             "fan_mode", PyStr("turbo"))>>

\* ------------------------------------------------- fan mirror: restart

\* The stored selection is usable, and it is a member of the list `options`.
StoredSelectionIn(options) ==
    /\ select_stored_state \notin {NoLastState, STATE_UNKNOWN,
                                   STATE_UNAVAILABLE}
    /\ select_stored_state \in Range(options)

\* The synchronisation that ends the mirror's startup reads a valid
\* fan-speed value from the source entity.
StartupReadsFanMode ==
    /\ ~unusable(hass_climate)
    /\ FanModeIn(hass_climate, select'.options)

\* A notification changes the current option only by reading a valid
\* fan-speed value from the source entity.
CurrentKeptUntilRead ==
    (MirrorNotified /\ select'.current_option # select.current_option)
    => /\ ~unusable(hass_climate')
       /\ FanModeIn(hass_climate', select'.options)
       /\ select'.current_option = hass_climate'.attributes.fan_mode

\* C24 as stated: the mirror's startup ends with the stored selection as
\* current option exactly when that selection is usable and a member of the
\* list the mirror was created with, and with no current option otherwise,
\* unless the synchronisation that follows reads a valid fan-speed value;
\* afterwards the option changes only when a synchronisation reads one.
C24_RestoredIffCreationMember ==
    [][ /\ (MirrorStartupSynced /\ ~StartupReadsFanMode)
           => select'.current_option =
                IF StoredSelectionIn(select.fan_modes)
                THEN PyStr(select_stored_state) ELSE PyNone
        /\ CurrentKeptUntilRead ]_vars

\* C24: the mirror's startup sets the current option to the stored
\* selection exactly when that selection is usable and a member of the
\* option list the mirror has when the restore lookup returns (the list it
\* was created with, unless a notification handled during the lookup
\* replaced it); otherwise the restore leaves the current option as it was
\* (absent, unless such a notification set it); the synchronisation that
\* follows replaces it when it reads a valid fan-speed value, and after
\* startup the option changes only when a synchronisation reads one.
C24_RestoredIffCurrentMember ==
    [][ /\ MirrorStartupSynced
           => select'.current_option =
                IF StartupReadsFanMode
                THEN hass_climate.attributes.fan_mode
                ELSE IF StoredSelectionIn(select.options)
                     THEN PyStr(select_stored_state)
                     ELSE select.current_option
        /\ (MirrorStartupSynced /\ select.options = select.fan_modes
              /\ select.current_option = PyNone /\ ~StartupReadsFanMode)
           => select'.current_option =
                IF StoredSelectionIn(select.fan_modes)
                THEN PyStr(select_stored_state) ELSE PyNone
        /\ CurrentKeptUntilRead ]_vars

\* C24: the mirror, created with the options low and high, has finished its
\* startup over a stored selection turbo while the source entity was
\* unavailable, after a notification during the restore lookup had brought
\* the options low, high, turbo and the value low: its option is turbo.
C24_Witness ==
    /\ select.exists
    /\ select.phase = "running"
    /\ select_stored_state = "turbo"
    /\ select.fan_modes = <<"low", "high">>
    /\ select.options = <<"low", "high", "turbo">>
    /\ select.current_option = PyStr("turbo")
    /\ ~select.available

\* ------------------------------------------------------------- removal

\* The humidifier entity is gone, alone or with its configuration entry;
\* the select entity is gone.
HumidifierGone == phase \in {"removed", "unloaded"}
SelectGone == select.exists /\ select.phase = "removed"

\* A source or companion entity notifies of a new state.
SourceChanged == hass_climate' # hass_climate
CompanionChanged == hass_companions' # hass_companions

\* After the removal of an entity, no notification of the source entity or
\* of a companion runs a handler of that entity.
EntitySubscriptionsReleased ==
    [][ /\ (HumidifierGone /\ (SourceChanged \/ CompanionChanged))
           => self' = self
        /\ (SelectGone /\ SourceChanged) => select' = select ]_vars

\* C25: after the removal of an entity no source or companion notification
\* runs a handler of it, and after the removal of the configuration entry
\* no source notification runs a handler or creates an entity: the
\* humidifier, the mirror and the one-shot listener are as the removal left
\* them.
C25_ReleasedAfterRemoval ==
    /\ EntitySubscriptionsReleased
    /\ [][(phase = "unloaded" /\ SourceChanged)
          => (select' = select /\ listener' = listener)]_vars

\* ------------------------------------------------- wizard: blank fields

\* The run in progress has ended with its Extras submission stored; the
\* entry it created (the last one) or reconfigured.
ExtrasStored == flow.type = "create_entry"
StoredEntry ==
    IF flow.handler = "options" THEN entries[flow.entry]
    ELSE entries[Len(entries)]

\* The companion roles of the wizard's dictionaries in the model.
WizardRoles == WizardKeys \cap Range(ALL_COMPANION_KEYS)

\* The submission gave a non-blank entity reference for the role.
SubmittedNonBlank(user_input, role) ==
    user_input[role] \notin {Unset, PyStr("")}

\* C26: once a run of the initial setup or of the reconfiguration has
\* stored its Extras submission, the entry's configuration holds a
\* companion role exactly when that submission gave a non-blank entity
\* reference for it, and then holds that reference: a role submitted blank
\* is absent, neither stored as an empty value nor carried over.
C26_RoleStoredIffSubmitted ==
    ExtrasStored
    => \A role \in WizardRoles :
         LET stored == entry_config(StoredEntry)[role]
         IN  /\ stored # PyStr("")
             /\ stored # Unset <=> SubmittedNonBlank(flow.user_input, role)
             /\ stored # Unset => stored = flow.user_input[role]

\* ------------------------------------------------ wizard: humidity range

\* A step in which the Core step of a wizard run, initial setup or
\* reconfiguration, handled a submission.
CoreHandled ==
    /\ flow.type = "form"
    /\ flow.step_id \in {"user", "core"}
    /\ flow'.handler = flow.handler
    /\ flow'.user_input[CONF_CLIMATE_ENTITY] # Unset
    /\ flow' # flow

\* The submitted minimum is greater than or equal to the submitted maximum.
MinNotBelowMax(user_input) ==
    user_input[CONF_MIN_HUMIDITY].n >= user_input[CONF_MAX_HUMIDITY].n

\* The submission is refused with the range-invalid form error: the run
\* stays on its Core step and nothing of the submission is stored.
RangeRefused ==
    /\ flow'.type = "form"
    /\ flow'.step_id = flow.step_id
    /\ flow'.detail = "humidity_range_invalid"
    /\ flow'.data = flow.data
    /\ entries' = entries

\* Every configuration record has minimum < maximum.
RangeOrdered(es) ==
    \A i \in DOMAIN es :
      entry_config(es[i])[CONF_MIN_HUMIDITY].n
        < entry_config(es[i])[CONF_MAX_HUMIDITY].n

\* The initial setup's Core submission names a source entity that is the
\* unique id of an existing entry.
DuplicateSubmitted ==
    flow.handler = "config" /\ unique_id_configured(flow'.unique_id)

\* C27 as stated: every Core submission with minimum >= maximum, in initial
\* setup or reconfiguration, gets the range-invalid form error, stays on
\* the Core step and stores nothing; every configuration record has
\* minimum < maximum.
C27_InvalidRangeRefused ==
    [][ /\ (CoreHandled /\ MinNotBelowMax(flow'.user_input))
           => RangeRefused
        /\ RangeOrdered(entries') ]_vars

\* C27: a Core submission with minimum >= maximum gets the range-invalid
\* form error, stays on the Core step and stores nothing, in
\* reconfiguration always and in initial setup unless the submitted source
\* entity is already configured: then the run is aborted as a duplicate
\* before the range is looked at, with no range error and nothing stored.
\* A submission with minimum < maximum gets no range error.  Every
\* configuration record has minimum < maximum.
C27_InvalidRangeRefusedUnlessDuplicate ==
    [][ /\ (CoreHandled /\ MinNotBelowMax(flow'.user_input))
           => IF DuplicateSubmitted
              THEN /\ flow'.type = "abort"
                   /\ flow'.detail = "already_configured"
                   /\ flow'.data = flow.data
                   /\ entries' = entries
              ELSE RangeRefused
        /\ (CoreHandled /\ ~MinNotBelowMax(flow'.user_input))
           => flow'.detail # "humidity_range_invalid"
        /\ RangeOrdered(entries') ]_vars

\* C27: the reconfiguration of an entry has refused a Core submission with
\* minimum = maximum = 50.
C27_Witness ==
    /\ flow.handler = "options"
    /\ flow.type = "form"
    /\ flow.step_id = "core"
    /\ flow.detail = "humidity_range_invalid"
    /\ flow.user_input[CONF_MIN_HUMIDITY] = PyInt(50)
    /\ flow.user_input[CONF_MAX_HUMIDITY] = PyInt(50)
    /\ flow.data[CONF_MIN_HUMIDITY] = PyInt(30)
    /\ RangeOrdered(entries)

\* ------------------------------------------ commands and derived state

\* A command acts: it issues its call, is refused, or its call returns.
CommandActs == <<calls, call_error, result>>' # <<calls, call_error, result>>

\* A handler of the humidifier or of the mirror runs: a notification of
\* the source entity, or a step of an entity's creation and startup.
HandlerRuns ==
    \/ SourceChanged
    \/ phase' # phase
    \/ select'.exists /\ (~select.exists \/ select'.phase # select.phase)

\* C28: no step of a command (turn-on, turn-off, set-target, set-mode,
\* fan-speed select), neither the issue of its call nor the return of the
\* call, changes an attribute of the humidifier or of the mirror; these
\* change only in notification and startup handlers; and a notification
\* handled while a command is suspended at its call gives the entities the
\* state the same notification gives them without the command.
C28_CommandsWriteNoDerivedState ==
    [][ /\ CommandActs => (self' = self /\ select' = select)
        /\ (self' # self \/ select' # select) => HandlerRuns
        /\ (SourceChanged /\ subscribed)
           => self' = sync_from_climate(self, hass_climate').self
        /\ (SourceChanged /\ select_subscribed)
           => select' = select_sync_from_climate(select, hass_climate')
      ]_vars

\* C28: the selection of turbo is suspended at its call, and the mirror has
\* meanwhile been notified of the source entity's new fan mode turbo.
C28_Witness ==
    /\ result = Result("select_option", PyStr("turbo"), Suspended)
    /\ calls = <<ServiceCall("set_fan_mode", "climate.dehumidifier",
                             "fan_mode", PyStr("turbo"))>>
    /\ hass_climate.exists
    /\ hass_climate.attributes.fan_mode = PyStr("turbo")
    /\ select.current_option = PyStr("turbo")
    /\ phase = "running"
    /\ self.available

\* ------------------------------------- startup: subscribe, then restore

\* C29: the source subscription is registered before the restore lookup is
\* awaited, so a source notification during the lookup is handled like any
\* other; whatever was handled meanwhile, when the startup finishes over a
\* usable source state the entity is available and on/off is the one of
\* that state, whatever the restore store holds, and when it finishes over
\* a missing, unknown or unavailable source state and the store holds a
\* usable state, the entity is unavailable and on/off is the stored one.
C29_StartupPrefersLiveState ==
    [][ /\ (phase = "restoring" /\ SourceChanged)
           => self' = sync_from_climate(self, hass_climate').self
        /\ (phase = "constructed" /\ SourceChanged) => self' = self
        /\ (StartupSynced /\ ~unusable(hass_climate))
           => /\ self'.available
              /\ self'.is_on <=> hass_climate.state # STATE_OFF
        /\ (StartupSynced /\ unusable(hass_climate) /\ UsableStored)
           => /\ ~self'.available
              /\ self'.is_on <=> stored_state # STATE_OFF ]_vars

\* C29: the store held "off"; a notification handled during the restore
\* lookup had brought target and mode of a source entity that was on, and
\* the startup finished after the source entity had become unavailable:
\* the entity is off and unavailable, with that target and mode.
C29_Witness ==
    /\ phase = "running"
    /\ stored_state = STATE_OFF
    /\ unusable(hass_climate)
    /\ ~self.is_on
    /\ ~self.available
    /\ self.target_humidity = PyInt(45)
    /\ self.mode = PyStr("auto")

\* ------------------------------------------ fan mirror: option invariant

\* C30: in every reachable state of the fan-speed mirror the current option
\* is absent or a member of the mirror's option list.
C30_CurrentIsOption ==
    select.exists
    => \/ select.current_option = PyNone
       \/ select.current_option.s \in Range(select.options)

====
